---- MODULE Spec2Model ----
(***************************************************************************)
(* Verification model of the signal decision-and-execution pipeline of     *)
(* EXTREMA (backend/app/services).                                         *)
(*                                                                         *)
(* Spec     : MTFStateMachine.run / scan / micro_confirm / execute and the *)
(*            start / stop endpoints of routers/mtf.py.                    *)
(* SpecRisk : the run cycles next to callers of                            *)
(*            RiskManager.check_entry_risk.                                *)
(* SpecOM   : OrderManager (post-only placement, the unfilled protocol).   *)
(* SpecRM   : calls of RiskManager.check_entry_risk over a range of        *)
(*            inputs and configurations.                                   *)
(* SpecTP   : TPSLManager (TP ladder, trailing stop, time stop, early      *)
(*            reduce) under any sequence of calls.                         *)
(* SpecTL   : calls of TPSLManager.calculate_tp_sl_levels on managers of   *)
(*            several configured ladders.                                  *)
(* SpecSE   : calls of signal_engine.micro_confirm over a range of frames, *)
(*            sides, windows and microstructure snapshots.                 *)
(* SpecCF   : calls of the two confluence engines over a range of leg      *)
(*            results.                                                     *)
(* SpecWK   : the kline worker and the microstructure worker under any     *)
(*            sequence of start and stop requests; one step of a task is   *)
(*            the code between two awaits.                                 *)
(* SpecSig  : the run cycles on a feed where every frame holds a gated     *)
(*            extremum and the confluence totals are those the engine's    *)
(*            weights can add up to; weakly fair, as the monitor loop      *)
(*            keeps calling run().                                         *)
(* SpecKS   : the candle stores under stream updates, resampling passes    *)
(*            and REST polls.                                              *)
(*                                                                         *)
(* Time is counted in 5-minute bars: one Tick closes one 5m bar and moves  *)
(* the wall clock by five minutes.  Prices are integers in ticks of 0.01.  *)
(*                                                                         *)
(* Collaborators of the state machine are modelled at their interface:     *)
(*  - the frame that scan() walks is an input giving, for each index of    *)
(*    the scanned range, the outcome of the extremum comparison and of the *)
(*    ATR / volume / BB-width gate (lines 124-153);                        *)
(*  - confluence_engine.evaluate() returns leg totals drawn from the       *)
(*    0..100 scale that compute_final_confluence's thresholds are written  *)
(*    for; the final record is computed from them as the code does;        *)
(*  - the 5m store read by execute() is an input (bars available, last     *)
(*    close, ATR).                                                         *)
(***************************************************************************)
EXTENDS Integers, Sequences, FiniteSets, TLC

\* ---------------------------------------------------------------- bounds
MaxTime == 7
DfLimit == 4
StartBars == 3
MaxRiskLog == 1
MaxOrders == 4
MaxClock == 24
MaxTail == 3
MaxWorkers == 3
MaxStreamTs == 10
MaxRestBar == 3
MaxStoreLen == 6
\* scan() needs 50 bars and compares 12 bars on each side; the window
\* handed to run() holds 200.  The three are scaled down together.
MinBars == 3
ExtremaWindow == 2

\* ------------------------------------------------------------- constants
TimeoutTicks == 6
CooldownTicks == 3
VetoHygieneCredit == 3
MinLiqGapMultiplier == 3
MmrDenominator == 200
max_slip_attempts == 3
tick_size == 1
\* max_slip_pct = 0.05 percent: slip_pct > max_slip_pct iff
\* |new_price - original_price| x SlipCapDivisor > original_price
SlipCapDivisor == 2000

None == <<>>
Some(x) == <<x>>

MTFState == {"scan", "candidate", "micro_confirm", "execute", "manage"}
Sides == {"long", "short"}
NoTime == 0 - 1

VARIABLES
    state,                  \* MTFStateMachine.state
    candidate,              \* MTFStateMachine.candidate (None or Some(Candidate))
    active_position,        \* MTFStateMachine.active_position
    invalidated_candidates, \* {index: timestamp}; NoTime = key absent
    now,                    \* wall clock, in 5m bars
    kline_worker,           \* routers/mtf.py kline_worker: "none" | "running"
    returned,               \* value returned by the latest run() call
    outcome,                \* history: how the latest operation ended
    emitCtx,                \* history: circumstances of the Signal in `returned`
    rejectedAt,             \* history: bar -> time of its micro rejection, kept while
                            \* the 15-minute cooldown runs
    riskLog,                \* history: entries approved by check_entry_risk
    orders,                 \* OrderManager.orders
    active_orders,          \* OrderManager.active_orders
    proto,                  \* unfilled_protocol frame (None when not running)
    book,                   \* best bid / best ask seen by the order manager
    riskCall,               \* the latest check_entry_risk call: inputs and result
    positions,              \* TPSLManager.positions
    tpClock,                \* datetime.now(timezone.utc), in hours
    tpResult,               \* what the latest TPSLManager call returned
    seCall,                 \* the signal_engine call being served: inputs and result
    cfCall,                 \* the confluence-engine call being served: inputs and result
    workers,                \* every stream worker created so far, with its task
    kline_worker_ref,       \* routers/mtf.py kline_worker: None or Some(worker id)
    mexc_worker,            \* workers/mexc_stream.py _worker: None or Some(worker id)
    lastWrite,              \* history: per resource, the worker that wrote last (0: none)
    kline_stores,           \* mtf_store.KLINE_STORES: per timeframe, the timestamps stored
    streamTs,               \* timestamp of the latest closed 1s kline of the stream
    restBar                 \* the bar the REST source is in, per polled timeframe

smVars == <<state, candidate, active_position, invalidated_candidates, now,
            kline_worker, returned, outcome, emitCtx, rejectedAt, riskLog>>
omVars == <<orders, active_orders, proto, book>>
rmVars == <<riskCall>>
tpVars == <<positions, tpClock, tpResult>>
seVars == <<seCall>>
cfVars == <<cfCall>>
wkVars == <<workers, kline_worker_ref, mexc_worker, lastWrite>>
ksVars == <<kline_stores, streamTs, restBar>>
vars == <<state, candidate, active_position, invalidated_candidates, now,
          kline_worker, returned, outcome, emitCtx, rejectedAt, riskLog,
          orders, active_orders, proto, book, riskCall,
          positions, tpClock, tpResult, seCall, cfCall,
          workers, kline_worker_ref, mexc_worker, lastWrite,
          kline_stores, streamTs, restBar>>

Cand == candidate[1]

\* ----------------------------------------------------------- data window
\* The frame handed to run(): the most recent DfLimit bars of the 5m
\* series (get_klines("5m", limit=...)), re-indexed from 0.
NBars(t) == StartBars + t
DfLen(t) == IF NBars(t) > DfLimit THEN DfLimit ELSE NBars(t)
DfOffset(t) == NBars(t) - DfLen(t)
BarOf(i, t) == DfOffset(t) + i
Bars == 0..(StartBars + MaxTime)
Indices == 0..(DfLimit - 1)

\* range(len - window, len) minus the indices skipped by line 120
ScanRange(t) ==
    {i \in Indices : i >= DfLen(t) - ExtremaWindow /\ i < DfLen(t) /\ i >= ExtremaWindow}

\* Candidate.is_expired
is_expired(c, t) == (t - c.created_at) > TimeoutTicks

\* lines 141-144: still in cooldown
InCooldown(inv, i, t) == inv[i] # NoTime /\ (t - inv[i]) < CooldownTicks

FrameKinds == {"none", "min", "max", "min_gated"}
IsExtremum(k) == k # "none"
PassesGates(k) == k \in {"min", "max"}

\* lines 119-170: first index of the range, in increasing order, that is an
\* extremum, is not in cooldown and passes the gates
Qualifies(frame, inv, i, t) ==
    IsExtremum(frame[i]) /\ ~InCooldown(inv, i, t) /\ PassesGates(frame[i])

scan(frame, price, inv, t) ==
    IF DfLen(t) < MinBars THEN None
    ELSE LET q == {i \in ScanRange(t) : Qualifies(frame, inv, i, t)}
         IN IF q = {} THEN None
            ELSE LET i == CHOOSE x \in q : \A y \in q : x <= y
                 IN Some([index |-> i,
                          bar |-> BarOf(i, t),
                          side |-> IF frame[i] = "min" THEN "long" ELSE "short",
                          price |-> price,
                          created_at |-> t,
                          micro_confirmed |-> FALSE,
                          confluence_score |-> None])

\* ------------------------------------------------------ confluence engine
Min2_First(a, b) == a

Min2(a, b) == IF a <= b THEN a ELSE b

compute_final_confluence(context_score, micro_score) ==
    LET final_score == Min2(context_score, micro_score)
        tier == IF final_score >= 75 /\ context_score >= 75 /\ micro_score >= 80 THEN "A"
                ELSE IF final_score >= 60 /\ context_score >= 60 /\ micro_score >= 70 THEN "B"
                ELSE "SKIP"
    IN [final_score |-> final_score,
        context_score |-> context_score,
        micro_score |-> micro_score,
        tier |-> tier,
        size_multiplier |-> IF tier = "A" THEN 100 ELSE IF tier = "B" THEN 50 ELSE 0,
        allow_entry |-> tier \in {"A", "B"}]

\* snapshot seen by compute_micro_confluence's fallback veto branch
Snapshots == {"none", "not_ok", "clean", "veto"}

\* lines 494-544 with df_tape = None and side = None (the call made by
\* micro_confirm): credit defaults to full, zeroed by the fallback checks
veto_hygiene(snap) == IF snap = "veto" THEN 0 ELSE VetoHygieneCredit

ContextTotals == {0, 75}
MicroOtherTotals == {0, 77}

evaluate(ctx, other, snap) ==
    LET micro == other + veto_hygiene(snap)
    IN [final |-> compute_final_confluence(ctx, micro),
        veto_hygiene |-> veto_hygiene(snap)]

\* ---------------------------------------------------------- micro_confirm
\* MTFStateMachine.micro_confirm: the dict it returns
micro_confirm(c, t, ctx, other, snap, fault) ==
    IF c = None THEN [confirmed |-> FALSE, reason |-> "no_candidate", confluence |-> None]
    ELSE IF is_expired(c[1], t) THEN [confirmed |-> FALSE, reason |-> "timeout", confluence |-> None]
    ELSE IF fault THEN [confirmed |-> FALSE, reason |-> "error", confluence |-> None]
    ELSE LET r == evaluate(ctx, other, snap)
         IN IF r.final.allow_entry
            THEN [confirmed |-> TRUE, reason |-> "confirmed", confluence |-> Some(r)]
            ELSE [confirmed |-> FALSE, reason |-> "insufficient_confluence", confluence |-> Some(r)]

\* ---------------------------------------------------------------- execute
CandPrices == {9900}
Closes == {9800, 10000}
Atrs == {28}
StoreCounts == {0, 2, 14}

\* lines 328-335: last close beyond the extremum by 0.5 x ATR
Triggered(side, price, close, atr) ==
    IF side = "long" THEN 2 * close > 2 * price + atr
    ELSE 2 * close < 2 * price - atr

\* lines 340-354: 0.9 x ATR5 with ATR5 = ATR x 5/14, i.e. 9 x ATR / 28
StopLoss(side, price, close, atr) ==
    LET d == (9 * atr) \div 28
    IN IF side = "long"
       THEN (IF price <= close - d THEN price ELSE close - d)
       ELSE (IF price >= close + d THEN price ELSE close + d)

MakeSignal(c, final, n, close, atr) ==
    LET sl == StopLoss(c.side, c.price, close, atr)
        r == IF c.side = "long" THEN close - sl ELSE sl - close
        dir == IF c.side = "long" THEN 1 ELSE -1
    IN [side |-> c.side,
        entry |-> close,
        sl |-> sl,
        tp1 |-> close + dir * r,
        tp2 |-> close + dir * 2 * r,
        tp3 |-> close + dir * 3 * r,
        extremum_index |-> c.index,
        confirm_index |-> (IF n > 10 THEN 10 ELSE n) - 1,
        tier |-> final.tier,
        confluence_score |-> final.final_score,
        size_multiplier |-> final.size_multiplier]

\* MTFStateMachine.execute: the dict it returns
execute(c, final, n, close, atr, fault) ==
    IF fault THEN [executed |-> FALSE, reason |-> "error", signal |-> None]
    ELSE IF n < 2 THEN [executed |-> FALSE, reason |-> "insufficient_data", signal |-> None]
    ELSE IF n < 14 THEN [executed |-> FALSE, reason |-> "insufficient_history", signal |-> None]
    ELSE IF ~Triggered(c.side, c.price, close, atr)
         THEN [executed |-> FALSE, reason |-> "trigger_not_reached", signal |-> None]
    ELSE [executed |-> TRUE, reason |-> "executed",
          signal |-> Some(MakeSignal(c, final, n, close, atr))]

\* ------------------------------------------------------------ risk manager
Leverages == {3, 50}
Tiers == {"A", "B"}
Abs(x) == IF x < 0 THEN -x ELSE x

\* liq_gap_ok with a required multiplier of 2 in place of min_liq_gap_multiplier
liq_gap_ok_Weaker(entry, stop, side, leverage) ==
    LET stop_distance == Abs(entry - stop)
    IN /\ stop_distance > 0
       /\ entry * Abs(MmrDenominator - leverage)
            >= 2 * stop_distance * MmrDenominator * leverage

\* RiskManager.calculate_liq_gap: liq_distance / stop_distance >= 3 with
\* liq_distance = entry x |1/leverage - 0.005|, cross-multiplied
liq_gap_ok(entry, stop, side, leverage) ==
    LET stop_distance == Abs(entry - stop)
    IN /\ stop_distance > 0
       /\ entry * Abs(MmrDenominator - leverage)
            >= MinLiqGapMultiplier * stop_distance * MmrDenominator * leverage

\* RiskManager.__init__ defaults; amounts of money are in cents
DefaultRiskManager ==
    [base_position_size |-> 100000,
     account_balance |-> 1000000,
     max_risk_per_trade_pct |-> 2]

\* lines 170-177, in percent; any tier other than A is sized as B
tier_multiplier(tier) == IF tier = "A" THEN 100 ELSE 50

\* calculate_position_size without the clamp of lines 191-193
calculate_position_size_NoClamp(rm, tier, entry, stop, leverage) ==
    LET risk_distance == Abs(entry - stop)
        base == (rm.base_position_size * tier_multiplier(tier)) \div 100
        risk_usd == (base * risk_distance) \div entry
        max_risk_usd == (rm.account_balance * rm.max_risk_per_trade_pct) \div 100
    IN [tier |-> tier,
        tier_multiplier |-> tier_multiplier(tier),
        position_size_usd |-> base,
        leverage |-> leverage,
        risk_distance |-> risk_distance,
        risk_usd |-> risk_usd,
        max_risk_usd |-> max_risk_usd,
        risk_ok |-> risk_usd <= max_risk_usd]

\* RiskManager.calculate_position_size.  risk_usd is computed from the size
\* before the clamp and is not recomputed (lines 186-195).  The divisions are
\* exact for the inputs of SpecRM.
calculate_position_size(rm, tier, entry, stop, leverage) ==
    LET risk_distance == Abs(entry - stop)
        base == (rm.base_position_size * tier_multiplier(tier)) \div 100
        risk_usd == (base * risk_distance) \div entry
        max_risk_usd == (rm.account_balance * rm.max_risk_per_trade_pct) \div 100
        position_size_usd == IF risk_usd > max_risk_usd
                             THEN (max_risk_usd * entry) \div risk_distance
                             ELSE base
    IN [tier |-> tier,
        tier_multiplier |-> tier_multiplier(tier),
        position_size_usd |-> position_size_usd,
        leverage |-> leverage,
        risk_distance |-> risk_distance,
        risk_usd |-> risk_usd,
        max_risk_usd |-> max_risk_usd,
        risk_ok |-> risk_usd <= max_risk_usd]

\* lines 282-286: margin_required = size / leverage > 0.8 x account_balance
margin_insufficient(rm, sizing) ==
    sizing.position_size_usd * 10 > 8 * rm.account_balance * sizing.leverage

\* RiskManager.check_entry_risk on the manager rm
check_entry_risk(rm, entry, stop, side, tier, leverage) ==
    LET gap == liq_gap_ok(entry, stop, side, leverage)
        sizing == calculate_position_size(rm, tier, entry, stop, leverage)
        reasons == (IF gap THEN {} ELSE {"liq_gap"})
                       \cup (IF margin_insufficient(rm, sizing) THEN {"margin"} ELSE {})
    IN [entry_allowed |-> gap /\ reasons = {},
        liq_gap_ok |-> gap,
        position_sizing |-> sizing,
        reasons |-> reasons]

\* the exception a check_entry_risk call ends with, if any: 1/leverage in
\* calculate_liquidation_price (lines 72, 75) and risk_distance / entry_price
\* in calculate_position_size (line 180); no caller frame catches it
check_entry_risk_raises(entry, leverage) ==
    IF leverage = 0 \/ entry = 0 THEN Some("ZeroDivisionError") ELSE None

\* inputs of SpecRM: prices in tenths (entry 100.0); no input lies on the
\* liq-gap threshold or on the margin threshold
RiskManagers ==
    {DefaultRiskManager, [DefaultRiskManager EXCEPT !.base_position_size = 5000000]}
RiskEntries == {0, 1000}
RiskStops == {750, 900, 950, 990, 995, 1000, 1005, 1050}
RiskLeverages == {0, 1, 3, 4, 10, 20, 100, 250}
\* the tier argument is a string; a caller can hand over any tier a
\* confluence result carries
RiskTiers == {"A", "B", "SKIP"}


\* ----------------------------------------------------------- order manager
\* An order id is the position of the order in `orders`.  bid_arg / ask_arg
\* record the best bid and best ask handed to the placing call, slip_ref the
\* price slip is measured from: the order's own price, or for a repost the
\* original_price of the protocol call that placed it.
NoBook == [bid |-> 0, ask |-> 0]

\* best bid / best ask, in ticks; none lies on a slip-cap threshold
Books == {[bid |-> 1998, ask |-> 1999],
          [bid |-> 5000, ask |-> 5002],
          [bid |-> 10000, ask |-> 10001]}

\* OrderManager.calculate_post_only_price
calculate_post_only_price(side, best_bid, best_ask) ==
    IF side = "long" THEN best_bid ELSE best_ask

\* OrderManager.place_post_only_order: the stores after the call and the id
place_post_only_order(os, ao, side, best_bid, best_ask, origin) ==
    LET order == [side |-> side,
                  order_type |-> "post_only",
                  price |-> calculate_post_only_price(side, best_bid, best_ask),
                  status |-> "open",
                  bid_arg |-> best_bid,
                  ask_arg |-> best_ask,
                  slip_ref |-> calculate_post_only_price(side, best_bid, best_ask),
                  origin |-> origin]
    IN [orders |-> Append(os, order),
        active_orders |-> Append(ao, Len(os) + 1),
        order_id |-> Len(os) + 1]

\* OrderManager.check_order_fill
check_order_fill(os, id) ==
    IF id \notin DOMAIN os THEN [filled |-> FALSE]
    ELSE [filled |-> os[id].status = "filled"]

\* list.remove
Remove(seq, x) == SelectSeq(seq, LAMBDA y : y # x)

\* a cancel_order that reports success and changes nothing
cancel_order_Noop(os, ao, id) ==
    [orders |-> os, active_orders |-> ao, ok |-> id \in DOMAIN os]

\* OrderManager.cancel_order: the stores after the call and its return value
cancel_order(os, ao, id) ==
    IF id \notin DOMAIN os THEN [orders |-> os, active_orders |-> ao, ok |-> FALSE]
    ELSE IF os[id].status \in {"filled", "cancelled"}
    THEN [orders |-> os, active_orders |-> ao, ok |-> FALSE]
    ELSE [orders |-> [os EXCEPT ![id].status = "cancelled"],
          active_orders |-> Remove(ao, id),
          ok |-> TRUE]

\* unfilled_protocol, lines 343-354
slip_price(side, original_price, current_attempt) ==
    IF side = "long" THEN original_price + tick_size * current_attempt
    ELSE original_price - tick_size * current_attempt

\* a cap of twice max_slip_pct
slip_cap_exceeded_Doubled(new_price, original_price) ==
    Abs(new_price - original_price) * SlipCapDivisor > 2 * original_price

slip_cap_exceeded(new_price, original_price) ==
    Abs(new_price - original_price) * SlipCapDivisor > original_price

\* a loop condition that lets one more attempt through
more_attempts_OneMore(current_attempt) == current_attempt <= max_slip_attempts

\* line 324 as evaluated at the end of an iteration
more_attempts(current_attempt) == current_attempt < max_slip_attempts

\* the frame of an unfilled_protocol call that is asleep in its wait; held
\* records the order the call was given and the orders it has placed
ProtoFrame(id, original_price, attempt, urgent, best_bid, best_ask, held) ==
    [pc |-> "sleep", order |-> id, original_price |-> original_price,
     current_attempt |-> attempt, is_urgent |-> urgent,
     best_bid |-> best_bid, best_ask |-> best_ask, held |-> held,
     result |-> [filled |-> FALSE, attempts |-> attempt, reason |-> "none",
                 final_order |-> 0]]

\* the frame once the call has returned `result`
ProtoDone(f, filled, reason, final_order) ==
    [f EXCEPT !.pc = "done",
              !.result = [filled |-> filled, attempts |-> f.current_attempt,
                          reason |-> reason, final_order |-> final_order]]

\* ------------------------------------------------------------ TPSLManager
\* TPSLManager.__init__ defaults; percentages in percent, R-multiples in
\* halves, hours in hours
tp1_r == 2
tp2_r == 4
tp3_r == 6
tp2_r_squeeze == 5
tp3_r_squeeze == 8
tp1_pct == 50
tp2_pct == 30
tp3_pct == 20
max_hold_hours_normal == 24
max_hold_hours_squeeze == 12
early_reduce_pct == 50

Regimes == {"normal", "squeeze"}
PositionIds == {"p1"}
NoPositions == [i \in {} |-> None]

\* inputs of SpecTP: the entry is 100 and the stop is 4 away on either side,
\* so that every R-multiple is a whole price; trail_distance = 0.5 x atr
TpEntries == {100}
TpStops == {96, 104}
TpAtrs == {2, 4}
TpQuantities == {10}
TpPrices == {84, 90, 96, 101, 104, 110, 116}

\* TPSLManager.__init__: the ladder of a manager; R-multiples in halves,
\* fractions in percent
DefaultTPSLManager ==
    [tp1_r |-> tp1_r, tp2_r |-> tp2_r, tp3_r |-> tp3_r,
     tp1_pct |-> tp1_pct, tp2_pct |-> tp2_pct, tp3_pct |-> tp3_pct]

\* configured ladders: each is increasing and its fractions sum to 100
TpManagers ==
    {DefaultTPSLManager,
     [DefaultTPSLManager EXCEPT !.tp1_r = 3],
     [DefaultTPSLManager EXCEPT !.tp2_r = 5, !.tp3_r = 7],
     [DefaultTPSLManager EXCEPT !.tp1_r = 6, !.tp2_r = 8, !.tp3_r = 10],
     [DefaultTPSLManager EXCEPT !.tp1_pct = 40, !.tp2_pct = 40]}
AllRegimes == {"squeeze", "normal", "wide"}

\* calculate_tp_sl_levels with the configured tp2_r / tp3_r kept in a squeeze
calculate_tp_sl_levels_of_NoOverride(mgr, entry_price, stop_loss, side, regime, atr) ==
    LET risk == Abs(entry_price - stop_loss)
        sgn == IF side = "long" THEN 1 ELSE -1
    IN [entry |-> entry_price,
        stop_loss |-> stop_loss,
        risk |-> risk,
        tp1 |-> entry_price + sgn * ((mgr.tp1_r * risk) \div 2),
        tp2 |-> entry_price + sgn * ((mgr.tp2_r * risk) \div 2),
        tp3 |-> entry_price + sgn * ((mgr.tp3_r * risk) \div 2),
        tp1_r |-> mgr.tp1_r,
        tp2_r |-> mgr.tp2_r,
        tp3_r |-> mgr.tp3_r,
        tp1_pct |-> mgr.tp1_pct,
        tp2_pct |-> mgr.tp2_pct,
        tp3_pct |-> mgr.tp3_pct,
        regime |-> regime,
        trail_distance |-> atr \div 2]

\* TPSLManager.calculate_tp_sl_levels on the manager mgr
calculate_tp_sl_levels_of(mgr, entry_price, stop_loss, side, regime, atr) ==
    LET risk == Abs(entry_price - stop_loss)
        r2 == IF regime = "squeeze" THEN tp2_r_squeeze ELSE mgr.tp2_r
        r3 == IF regime = "squeeze" THEN tp3_r_squeeze ELSE mgr.tp3_r
        sgn == IF side = "long" THEN 1 ELSE -1
    IN [entry |-> entry_price,
        stop_loss |-> stop_loss,
        risk |-> risk,
        tp1 |-> entry_price + sgn * ((mgr.tp1_r * risk) \div 2),
        tp2 |-> entry_price + sgn * ((r2 * risk) \div 2),
        tp3 |-> entry_price + sgn * ((r3 * risk) \div 2),
        tp1_r |-> mgr.tp1_r,
        tp2_r |-> r2,
        tp3_r |-> r3,
        tp1_pct |-> mgr.tp1_pct,
        tp2_pct |-> mgr.tp2_pct,
        tp3_pct |-> mgr.tp3_pct,
        regime |-> regime,
        trail_distance |-> atr \div 2]

\* the manager of SpecTP has the default ladder
calculate_tp_sl_levels(entry_price, stop_loss, side, regime, atr) ==
    calculate_tp_sl_levels_of(DefaultTPSLManager, entry_price, stop_loss, side, regime, atr)

\* TPSLManager.create_position: the position object
NewPosition(entry_price, stop_loss, side, quantity, regime, atr, clock) ==
    [side |-> side,
     entry_price |-> entry_price,
     current_quantity |-> quantity,
     original_quantity |-> quantity,
     levels |-> calculate_tp_sl_levels(entry_price, stop_loss, side, regime, atr),
     tp_hits |-> [tp1 |-> FALSE, tp2 |-> FALSE, tp3 |-> FALSE],
     trailing_stop |-> [status |-> "inactive",
                        current_stop |-> stop_loss,
                        highest_price |-> IF side = "long" THEN Some(entry_price) ELSE None,
                        lowest_price |-> IF side = "short" THEN Some(entry_price) ELSE None],
     entry_time |-> clock,
     max_hold_hours |-> IF regime = "squeeze" THEN max_hold_hours_squeeze
                        ELSE max_hold_hours_normal,
     early_reduce_triggered |-> FALSE,
     closed |-> FALSE]

\* self.positions[position_id] = position
Store(ps, id, p) ==
    [i \in DOMAIN ps \cup {id} |-> IF i = id THEN p ELSE ps[i]]

NotFound(op) == [op |-> op, error |-> "Position not found"]

\* a TP level is reached by the current price
level_hit(side, level, current_price) ==
    \/ side = "long" /\ current_price >= level
    \/ side = "short" /\ current_price <= level

\* one entry of result['reductions']
Reduction(p, level, price, pct) ==
    [level |-> level, price |-> price,
     quantity |-> (p.original_quantity * pct) \div 100, pct |-> pct]

\* not_yet_hit ignoring the recorded hits
not_yet_hit_Always(p, key) == TRUE

\* lines 253, 277 and 301: a level is examined only while it is not yet hit
not_yet_hit(p, key) == ~p.tp_hits[key]

\* TPSLManager.check_tp_hits on a stored position
check_tp_hits(p, current_price) ==
    LET h1 == not_yet_hit(p, "tp1") /\ level_hit(p.side, p.levels.tp1, current_price)
        h2 == not_yet_hit(p, "tp2") /\ level_hit(p.side, p.levels.tp2, current_price)
        h3 == not_yet_hit(p, "tp3") /\ level_hit(p.side, p.levels.tp3, current_price)
    IN [position |-> [p EXCEPT !.tp_hits = [tp1 |-> p.tp_hits.tp1 \/ h1,
                                             tp2 |-> p.tp_hits.tp2 \/ h2,
                                             tp3 |-> p.tp_hits.tp3 \/ h3]],
        result |-> [op |-> "check_tp_hits",
                    tp_hits |-> (IF h1 THEN <<"TP1">> ELSE <<>>)
                                    \o (IF h2 THEN <<"TP2">> ELSE <<>>)
                                    \o (IF h3 THEN <<"TP3">> ELSE <<>>),
                    reductions |->
                        (IF h1 THEN <<Reduction(p, "TP1", p.levels.tp1, p.levels.tp1_pct)>>
                         ELSE <<>>)
                        \o (IF h2 THEN <<Reduction(p, "TP2", p.levels.tp2, p.levels.tp2_pct)>>
                            ELSE <<>>)
                        \o (IF h3 THEN <<Reduction(p, "TP3", p.levels.tp3, p.levels.tp3_pct)>>
                            ELSE <<>>),
                    activate_trailing |-> h1]]

\* trails_after_tp1 without the TP1 gate
trails_after_tp1_Always(p) == TRUE

\* line 356: the trailing stop is touched only once TP1 has been hit
trails_after_tp1(p) == p.tp_hits.tp1

\* moves_stop accepting every recomputed stop
moves_stop_Always(side, new_stop, current_stop) == TRUE

\* lines 392 and 409: only move the stop up (long) or down (short)
moves_stop(side, new_stop, current_stop) ==
    IF side = "long" THEN new_stop > current_stop ELSE new_stop < current_stop

\* TPSLManager.update_trailing_stop on a stored position
update_trailing_stop(p, current_price) ==
    LET t == p.trailing_stop
        unchanged == [op |-> "update_trailing_stop", updated |-> FALSE,
                      new_stop |-> t.current_stop, status |-> t.status]
    IN IF ~trails_after_tp1(p) THEN [position |-> p, result |-> unchanged]
       ELSE IF t.status = "inactive"
       THEN [position |-> [p EXCEPT !.trailing_stop.status = "breakeven",
                                    !.trailing_stop.current_stop = p.entry_price],
             result |-> [op |-> "update_trailing_stop", updated |-> TRUE,
                         new_stop |-> p.entry_price, status |-> "breakeven"]]
       ELSE IF p.side = "long"
       THEN LET highest == IF t.highest_price = None THEN current_price
                           ELSE IF current_price > t.highest_price[1] THEN current_price
                           ELSE t.highest_price[1]
                new_stop == highest - p.levels.trail_distance
                q == [p EXCEPT !.trailing_stop.highest_price = Some(highest)]
            IN IF moves_stop(p.side, new_stop, t.current_stop)
               THEN [position |-> [q EXCEPT !.trailing_stop.current_stop = new_stop,
                                            !.trailing_stop.status = "active"],
                     result |-> [op |-> "update_trailing_stop", updated |-> TRUE,
                                 new_stop |-> new_stop, status |-> "active"]]
               ELSE [position |-> q, result |-> unchanged]
       ELSE LET lowest == IF t.lowest_price = None THEN current_price
                          ELSE IF current_price < t.lowest_price[1] THEN current_price
                          ELSE t.lowest_price[1]
                new_stop == lowest + p.levels.trail_distance
                q == [p EXCEPT !.trailing_stop.lowest_price = Some(lowest)]
            IN IF moves_stop(p.side, new_stop, t.current_stop)
               THEN [position |-> [q EXCEPT !.trailing_stop.current_stop = new_stop,
                                            !.trailing_stop.status = "active"],
                     result |-> [op |-> "update_trailing_stop", updated |-> TRUE,
                                 new_stop |-> new_stop, status |-> "active"]]
               ELSE [position |-> q, result |-> unchanged]

\* TPSLManager.check_time_stop: the position is only read
check_time_stop(p, clock) ==
    [op |-> "check_time_stop",
     time_stop_triggered |-> clock - p.entry_time >= p.max_hold_hours,
     hold_hours |-> clock - p.entry_time,
     max_hold_hours |-> p.max_hold_hours]

\* TPSLManager.check_early_reduce on a stored position
check_early_reduce(p, reversal_signal) ==
    LET none == [op |-> "check_early_reduce", early_reduce_triggered |-> FALSE,
                 reduction_pct |-> 0, move_to_breakeven |-> FALSE, full_exit |-> FALSE]
    IN IF ~reversal_signal THEN [position |-> p, result |-> none]
       ELSE IF p.early_reduce_triggered
       THEN [position |-> p, result |-> [none EXCEPT !.full_exit = TRUE]]
       ELSE [position |-> [p EXCEPT !.early_reduce_triggered = TRUE],
             result |-> [none EXCEPT !.early_reduce_triggered = TRUE,
                                     !.reduction_pct = early_reduce_pct,
                                     !.move_to_breakeven = TRUE]]

\* TPSLManager.close_position
close_position(ps, id) ==
    IF id \in DOMAIN ps THEN [ps EXCEPT ![id].closed = TRUE] ELSE ps

\* ---------------------------------------------------------- signal engine
\* microstructure.micro_ok; spread in bps, ladder imbalance in hundredths.
\* snap.ts and snap.ok are not read.
micro_ok(side, snap, spread_bps_max, depth_min, imb_threshold, cvd_slope_min) ==
    IF snap = None THEN [ok |-> FALSE, veto |-> {"no_snapshot"}, bonus |-> 0]
    ELSE LET m == snap[1]
             spread == IF m.spread_bps >= spread_bps_max THEN {"spread"} ELSE {}
             depth == IF depth_min > 0 /\ Min2(m.bid_agg, m.ask_agg) <= depth_min
                      THEN {"depth"} ELSE {}
             imb_ok == IF side = "long" THEN m.ladder_imbalance > imb_threshold
                       ELSE m.ladder_imbalance < -imb_threshold
             imbalance == IF imb_ok THEN {} ELSE {"imbalance"}
             slope_ok == IF side = "long" THEN m.cvd_slope > cvd_slope_min
                         ELSE m.cvd_slope < -cvd_slope_min
             cvd == IF cvd_slope_min > 0 /\ ~slope_ok THEN {"cvd_slope"} ELSE {}
             veto == spread \cup depth \cup imbalance \cup cvd
         IN [ok |-> veto = {},
             veto |-> veto,
             bonus |-> IF veto = {} THEN Min2(10, Abs(m.ladder_imbalance)) ELSE 0]

\* defaults of micro_confirm
spread_bps_max == 10
imb_threshold == 15

\* routers/stream.py: a snapshot older than this many seconds is reported stale
FreshnessSeconds == 10

\* df.at[j, ...] on a frame held as a sequence (row j is element j + 1)
At(df, j) == df[j + 1]

\* line 97 / 99 with breakout_atr_mult = 0.5 and atr5 = ATR14 x 5/14
brk(df, i, j, side) ==
    IF side = "long"
    THEN 28 * At(df, j).close > 28 * At(df, i).high + 5 * At(df, i).ATR14
    ELSE 28 * At(df, j).close < 28 * At(df, i).low - 5 * At(df, i).ATR14

\* lines 102-103 with vol_mult = 1.5; a NaN rolling median counts as 0
vol_ok(df, j) ==
    LET med_vol_val == IF At(df, j).med_vol = None THEN 0 ELSE At(df, j).med_vol[1]
    IN 2 * At(df, j).Volume >= 3 * med_vol_val

\* the loop of micro_confirm from bar j on; snaps[j + 1] is what get_snapshot()
\* returns while bar j is examined
RECURSIVE ConfirmFrom(_, _, _, _, _, _, _)
ConfirmFrom(df, i, side, hi, enable_micro_gate, snaps, j) ==
    IF j > hi THEN None
    ELSE IF brk(df, i, j, side) /\ vol_ok(df, j)
            /\ (enable_micro_gate
                   => micro_ok(side, At(snaps, j), spread_bps_max, 0, imb_threshold, 0).ok)
         THEN Some(j)
         ELSE ConfirmFrom(df, i, side, hi, enable_micro_gate, snaps, j + 1)

\* line 91: the last bar examined
hi(i, confirm_window, len) == Min2(i + 1 + confirm_window, len - 1)

\* the loop of micro_confirm giving up at the first microstructure veto
RECURSIVE ConfirmFromAborting(_, _, _, _, _, _, _)
ConfirmFromAborting(df, i, side, last, enable_micro_gate, snaps, j) ==
    IF j > last THEN None
    ELSE IF brk(df, i, j, side) /\ vol_ok(df, j)
         THEN IF enable_micro_gate
                   => micro_ok(side, At(snaps, j), spread_bps_max, 0, imb_threshold, 0).ok
              THEN Some(j)
              ELSE None
         ELSE ConfirmFromAborting(df, i, side, last, enable_micro_gate, snaps, j + 1)

micro_confirm_engine_AbortsOnVeto(df, i, side, confirm_window, enable_micro_gate, snaps) ==
    [confirm_index |-> ConfirmFromAborting(df, i, side, hi(i, confirm_window, Len(df)),
                                           enable_micro_gate, snaps, i + 1),
     veto |-> {}]

\* signal_engine.micro_confirm
micro_confirm_engine(df, i, side, confirm_window, enable_micro_gate, snaps) ==
    [confirm_index |-> ConfirmFrom(df, i, side, hi(i, confirm_window, Len(df)),
                                   enable_micro_gate, snaps, i + 1),
     veto |-> {}]

\* defaults of mark_candidates and MTFStateMachine.candidate_params: ATR and
\* z-scores in tenths, Bollinger width in thousandths
atr_min == 6
volz_min == 5
bbw_min == 5
obv_z_veto == 20

\* lines 33-45 of mark_candidates: the coarse filters of one row
coarse_filters(row) ==
    row.ATR14 >= atr_min /\ row.vol_z >= volz_min /\ row.BBWidth >= bbw_min

\* signal_engine.mark_candidates on one row; has_obv tells whether the frame
\* has an OBV_z10 column; a NaN z-score (None) compares False
mark_candidates(row, has_obv) ==
    LET obv_ok_long == IF has_obv THEN row.OBV_z10 # None /\ row.OBV_z10[1] > -obv_z_veto
                       ELSE TRUE
        obv_ok_short == IF has_obv THEN row.OBV_z10 # None /\ row.OBV_z10[1] < obv_z_veto
                        ELSE TRUE
    IN [cand_long |-> row.local_min /\ coarse_filters(row) /\ obv_ok_long,
        cand_short |-> row.local_max /\ coarse_filters(row) /\ obv_ok_short]

\* MTFStateMachine.scan, lines 138-170, on one row that is not in cooldown:
\* the side of the Candidate created at it, if any
scan_row(row) ==
    IF ~row.local_min /\ ~row.local_max THEN None
    ELSE IF row.ATR14 >= atr_min /\ row.vol_z >= volz_min /\ row.BBWidth >= bbw_min
    THEN Some(IF row.local_min THEN "long" ELSE "short")
    ELSE None

\* frames given to scan as a whole: within one extrema window there is at most
\* one strict local minimum and at most one strict local maximum
PossibleFrame(frame) ==
    \A i \in DOMAIN frame, j \in DOMAIN frame :
        (i # j /\ Abs(i - j) <= ExtremaWindow)
            => /\ ~(frame[i] \in {"min", "min_gated"} /\ frame[j] \in {"min", "min_gated"})
               /\ ~(frame[i] = "max" /\ frame[j] = "max")
ScanTimes == {t \in 0..MaxTime : DfLen(t) >= MinBars /\ ScanRange(t) # {}}
NoCooldown == [i \in Indices |-> NoTime]

\* rows given to mark_candidates and to scan
SeRows ==
    [local_min : BOOLEAN, local_max : BOOLEAN, ATR14 : {5, 10}, vol_z : {0, 15},
     BBWidth : {1, 10}, OBV_z10 : {None} \cup {Some(z) : z \in {-25, -20, 0, 20, 25}}]

\* inputs of SpecSE.  The candidate bar has high 100, low 90 and ATR14 28, so
\* a long breaks out above 105 and a short below 85.
SeBar(close, volume, med_vol) ==
    [high |-> 100, low |-> 90, close |-> close, Volume |-> volume,
     med_vol |-> med_vol, ATR14 |-> 28]
CandBar == SeBar(95, 10, None)
BrkLong == SeBar(110, 20, Some(10))
BrkShort == SeBar(80, 20, Some(10))
NoVol == SeBar(110, 10, Some(10))
NoBrk == SeBar(95, 20, None)

SeSnap(age, spread_bps, ladder_imbalance, ok) ==
    Some([age |-> age, spread_bps |-> spread_bps, bid_agg |-> 5000, ask_agg |-> 4000,
          ladder_imbalance |-> ladder_imbalance, cvd_slope |-> 1, ok |-> ok])
GoodLong == SeSnap(1, 8, 20, TRUE)
GoodShort == SeSnap(1, 8, -20, TRUE)
Wide == SeSnap(1, 20, 20, TRUE)
Stale == SeSnap(60, 8, 20, TRUE)
NotOk == SeSnap(1, 8, 20, FALSE)

\* a bar after the candidate together with the snapshot in place while the
\* bar is examined
SeSlots ==
    {[bar |-> BrkLong, snap |-> GoodLong], [bar |-> BrkLong, snap |-> Wide],
     [bar |-> BrkLong, snap |-> None], [bar |-> BrkLong, snap |-> Stale],
     [bar |-> BrkLong, snap |-> NotOk], [bar |-> NoBrk, snap |-> GoodLong],
     [bar |-> NoVol, snap |-> GoodLong], [bar |-> BrkShort, snap |-> GoodShort],
     [bar |-> BrkShort, snap |-> GoodLong]}
SeTails == UNION {[1..k -> SeSlots] : k \in 0..MaxTail}
SeIndices == {0, 1}
ConfirmWindows == {1, 2}

\* the frame and the snapshots of a call: i bars, the candidate, the tail
SeFrame(i, tail) ==
    [k \in 1..i |-> NoBrk] \o <<CandBar>> \o [k \in 1..Len(tail) |-> tail[k].bar]
SeSnaps(i, tail) ==
    [k \in 1..(i + 1) |-> None] \o [k \in 1..Len(tail) |-> tail[k].snap]

\* ------------------------------------------------------------ candle stores
\* mtf_store.KLINE_STORES, one deque per timeframe; a candle is its
\* timestamp.  "1s" is fed by the stream, "5s" by resampling, "15m" by the
\* REST poll, whose timestamps are counted in bars.  The deques' maxlen is
\* not reached within the bounds.
Timeframes == {"1s", "5s", "15m"}

\* binance_klines.py line 125 (`ts % 5 == 0`) and the "5S" rule of get_resampled
ResampleSeconds == 5
\* binance_rest.py line 180: klines[-2:]
PollKeep == 2

\* mtf_store.update_kline: append, whatever the store already holds
update_kline(stores, timeframe, ts) ==
    IF timeframe \notin DOMAIN stores THEN stores
    ELSE [stores EXCEPT ![timeframe] = Append(@, ts)]

RECURSIVE update_klines(_, _, _)
update_klines(stores, timeframe, tss) ==
    IF tss = <<>> THEN stores
    ELSE update_klines(update_kline(stores, timeframe, Head(tss)), timeframe, Tail(tss))

\* the elements of a set of timestamps in increasing order
RECURSIVE Ascending(_)
Ascending(S) ==
    IF S = {} THEN <<>>
    ELSE LET lo == CHOOSE x \in S : \A y \in S : x <= y
         IN <<lo>> \o Ascending(S \ {lo})

\* df.resample(rule): the buckets of the 1s candles held, in time order
resample(tss, seconds) ==
    Ascending({tss[i] - (tss[i] % seconds) : i \in DOMAIN tss})

\* mtf_store.get_resampled: every bucket of the whole 1s store is appended
\* to the target store on every call
get_resampled(stores, target_tf, seconds) ==
    IF stores["1s"] = <<>> THEN stores
    ELSE update_klines(stores, target_tf, resample(stores["1s"], seconds))

\* BinanceKlineWorker._process_kline for a closed 1s kline
process_kline(stores, ts) ==
    LET s == update_kline(stores, "1s", ts)
    IN IF ts % ResampleSeconds = 0 THEN get_resampled(s, "5s", ResampleSeconds) ELSE s

\* fetch_klines(symbol, interval, limit=5)[-2:] while the source is in bar b
latest_klines(b) == <<b - 1, b>>

\* -------------------------------------------------------------------- Init
Init ==
    /\ state = "scan"
    /\ candidate = None
    /\ active_position = None
    /\ invalidated_candidates = [i \in Indices |-> NoTime]
    /\ now = 0
    /\ kline_worker = "none"
    /\ returned = None
    /\ outcome = "init"
    /\ emitCtx = None
    /\ rejectedAt = [b \in Bars |-> NoTime]
    /\ riskLog = {}
    /\ orders = <<>>
    /\ active_orders = <<>>
    /\ proto = None
    /\ book = NoBook
    /\ riskCall = None
    /\ positions = NoPositions
    /\ tpClock = 0
    /\ tpResult = None
    /\ seCall = None
    /\ cfCall = None
    /\ workers = <<>>
    /\ kline_worker_ref = None
    /\ mexc_worker = None
    /\ lastWrite = [kline |-> 0, micro |-> 0]
    /\ kline_stores = [tf \in Timeframes |-> <<>>]
    /\ streamTs = 0
    /\ restBar = 1

\* ------------------------------------------------------------- run cycles
\* run(), state SCAN (lines 397-406)
ScanStep(frames, faults) ==
    /\ state = "scan"
    /\ \E fault \in faults :
         \E c \in IF fault THEN {None}
                  ELSE {scan(frame, price, invalidated_candidates, now) :
                            frame \in frames, price \in CandPrices} :
            /\ candidate' = IF c # None THEN c ELSE candidate
            /\ state' = IF c # None THEN "candidate" ELSE state
            /\ outcome' = IF fault THEN "error" ELSE "ok"
    /\ returned' = None
    /\ emitCtx' = None
    /\ UNCHANGED <<active_position, invalidated_candidates, now, kline_worker,
                   rejectedAt, riskLog>>
    /\ UNCHANGED omVars
    /\ UNCHANGED rmVars
    /\ UNCHANGED tpVars
    /\ UNCHANGED seVars
    /\ UNCHANGED cfVars
    /\ UNCHANGED wkVars
    /\ UNCHANGED ksVars

\* run() in state SCAN over any frame the store can hand it
RunScan == ScanStep([ScanRange(now) -> FrameKinds], BOOLEAN)

\* a run cycle that goes from CANDIDATE straight to EXECUTE
RunCandidate_SkipsConfirm ==
    /\ state = "candidate"
    /\ state' = "execute"
    /\ returned' = None
    /\ emitCtx' = None
    /\ outcome' = "ok"
    /\ UNCHANGED <<candidate, active_position, invalidated_candidates, now, kline_worker,
                   rejectedAt, riskLog>>
    /\ UNCHANGED omVars
    /\ UNCHANGED rmVars
    /\ UNCHANGED tpVars
    /\ UNCHANGED seVars
    /\ UNCHANGED cfVars
    /\ UNCHANGED wkVars
    /\ UNCHANGED ksVars

\* run(), state CANDIDATE (lines 408-412)
RunCandidate ==
    /\ state = "candidate"
    /\ state' = "micro_confirm"
    /\ returned' = None
    /\ emitCtx' = None
    /\ outcome' = "ok"
    /\ UNCHANGED <<candidate, active_position, invalidated_candidates, now, kline_worker,
                   rejectedAt, riskLog>>
    /\ UNCHANGED omVars
    /\ UNCHANGED rmVars
    /\ UNCHANGED tpVars
    /\ UNCHANGED seVars
    /\ UNCHANGED cfVars
    /\ UNCHANGED wkVars
    /\ UNCHANGED ksVars

\* lines 426-427
Invalidate(inv, c, t) ==
    IF c # None THEN [inv EXCEPT ![c[1].index] = t] ELSE inv

\* run(), state MICRO_CONFIRM (lines 414-433)
MicroConfirmStep(ctxs, others, snaps, faults) ==
    /\ state = "micro_confirm"
    /\ \E res \in {micro_confirm(candidate, now, ctx, other, snap, fault) :
                        ctx \in ctxs, other \in others,
                        snap \in snaps, fault \in faults} :
            IF res.confirmed
            THEN /\ state' = "execute"
                 /\ candidate' = Some([Cand EXCEPT !.micro_confirmed = TRUE,
                                                   !.confluence_score = res.confluence])
                 /\ outcome' = "ok"
                 /\ UNCHANGED <<invalidated_candidates, rejectedAt>>
            ELSE /\ invalidated_candidates' = Invalidate(invalidated_candidates, candidate, now)
                 /\ rejectedAt' = IF candidate # None
                                  THEN [rejectedAt EXCEPT ![Cand.bar] = now]
                                  ELSE rejectedAt
                 /\ candidate' = None
                 /\ state' = "scan"
                 /\ outcome' = IF res.reason = "insufficient_confluence" THEN "rejected"
                               ELSE IF res.reason = "timeout" THEN "expired"
                               ELSE "error"
    /\ returned' = None
    /\ emitCtx' = None
    /\ UNCHANGED <<active_position, now, kline_worker, riskLog>>
    /\ UNCHANGED omVars
    /\ UNCHANGED rmVars
    /\ UNCHANGED tpVars
    /\ UNCHANGED seVars
    /\ UNCHANGED cfVars
    /\ UNCHANGED wkVars
    /\ UNCHANGED ksVars

\* the confluence totals are those of the evaluate() interface
RunMicroConfirm == MicroConfirmStep(ContextTotals, MicroOtherTotals, Snapshots, BOOLEAN)

\* run(), state EXECUTE (lines 435-465); veto_now is what the veto system
\* would report at this moment: execute() does not read it
RunExecute ==
    /\ state = "execute"
    /\ \E veto_now \in BOOLEAN :
         \E res \in {execute(Cand, Cand.confluence_score[1].final, n, close, atr, fault) :
                        n \in StoreCounts, close \in Closes, atr \in Atrs, fault \in BOOLEAN} :
            IF res.executed
            THEN /\ active_position' = res.signal
                 /\ state' = "manage"
                 /\ candidate' = None
                 /\ returned' = res.signal
                 /\ outcome' = "ok"
                 /\ emitCtx' = Some([micro_confirmed |-> Cand.micro_confirmed,
                                     tier |-> Cand.confluence_score[1].final.tier,
                                     veto_hygiene |-> Cand.confluence_score[1].veto_hygiene,
                                     veto_at_exec |-> veto_now])
            ELSE IF res.reason = "trigger_not_reached"
            THEN /\ returned' = None
                 /\ emitCtx' = None
                 /\ outcome' = "waiting"
                 /\ UNCHANGED <<state, candidate, active_position>>
            ELSE /\ candidate' = None
                 /\ state' = "scan"
                 /\ returned' = None
                 /\ emitCtx' = None
                 /\ outcome' = IF res.reason = "error" THEN "error" ELSE "failed"
                 /\ UNCHANGED active_position
    /\ UNCHANGED <<invalidated_candidates, now, kline_worker, rejectedAt, riskLog>>
    /\ UNCHANGED omVars
    /\ UNCHANGED rmVars
    /\ UNCHANGED tpVars
    /\ UNCHANGED seVars
    /\ UNCHANGED cfVars
    /\ UNCHANGED wkVars
    /\ UNCHANGED ksVars

\* run(), state MANAGE (lines 467-473)
RunManage ==
    /\ state = "manage"
    /\ state' = "scan"
    /\ returned' = None
    /\ emitCtx' = None
    /\ outcome' = "ok"
    /\ UNCHANGED <<candidate, active_position, invalidated_candidates, now, kline_worker,
                   rejectedAt, riskLog>>
    /\ UNCHANGED omVars
    /\ UNCHANGED rmVars
    /\ UNCHANGED tpVars
    /\ UNCHANGED seVars
    /\ UNCHANGED cfVars
    /\ UNCHANGED wkVars
    /\ UNCHANGED ksVars

\* a handler at the step boundary that logs and returns None without lines
\* 478-479
RunFault_NoReset ==
    /\ returned' = None
    /\ emitCtx' = None
    /\ outcome' = IF candidate # None THEN "fault_live" ELSE "fault"
    /\ UNCHANGED <<state, candidate, active_position, invalidated_candidates, now,
                   kline_worker, rejectedAt, riskLog>>
    /\ UNCHANGED omVars
    /\ UNCHANGED rmVars
    /\ UNCHANGED tpVars
    /\ UNCHANGED seVars
    /\ UNCHANGED cfVars
    /\ UNCHANGED wkVars
    /\ UNCHANGED ksVars

\* run(), the handler at the step boundary (lines 475-480)
RunFault ==
    /\ candidate' = None
    /\ state' = "scan"
    /\ returned' = None
    /\ emitCtx' = None
    /\ outcome' = IF candidate # None THEN "fault_live" ELSE "fault"
    /\ UNCHANGED <<active_position, invalidated_candidates, now, kline_worker,
                   rejectedAt, riskLog>>
    /\ UNCHANGED omVars
    /\ UNCHANGED rmVars
    /\ UNCHANGED tpVars
    /\ UNCHANGED seVars
    /\ UNCHANGED cfVars
    /\ UNCHANGED wkVars
    /\ UNCHANGED ksVars

RunCycle ==
    \/ RunScan
    \/ RunCandidate
    \/ RunMicroConfirm
    \/ RunExecute
    \/ RunManage
    \/ RunFault

\* ------------------------------------------------------------ start / stop
\* routers/mtf.py start_mtf: refuses a worker that is already running.  The
\* task created for BinanceKlineWorker.start sets running = True as soon as
\* the handler yields, before the event loop serves another request.
StartMtf ==
    /\ kline_worker # "running"
    /\ kline_worker' = "running"
    /\ outcome' = "ok"
    /\ UNCHANGED <<state, candidate, active_position, invalidated_candidates, now,
                   returned, emitCtx, rejectedAt, riskLog>>
    /\ UNCHANGED omVars
    /\ UNCHANGED rmVars
    /\ UNCHANGED tpVars
    /\ UNCHANGED seVars
    /\ UNCHANGED cfVars
    /\ UNCHANGED wkVars
    /\ UNCHANGED ksVars

\* a stop_mtf that resets the state (line 107) but not the candidate (108)
StopMtf_KeepsCandidate ==
    /\ kline_worker = "running"
    /\ kline_worker' = "none"
    /\ state' = "scan"
    /\ outcome' = IF candidate # None THEN "stopped_live" ELSE "stopped"
    /\ UNCHANGED <<candidate, active_position, invalidated_candidates, now, returned,
                   emitCtx, rejectedAt, riskLog>>
    /\ UNCHANGED omVars
    /\ UNCHANGED rmVars
    /\ UNCHANGED tpVars
    /\ UNCHANGED seVars
    /\ UNCHANGED cfVars
    /\ UNCHANGED wkVars
    /\ UNCHANGED ksVars

\* routers/mtf.py stop_mtf (lines 91-108): refuses unless a worker is running
StopMtf ==
    /\ kline_worker = "running"
    /\ kline_worker' = "none"
    /\ state' = "scan"
    /\ candidate' = None
    /\ outcome' = IF candidate # None THEN "stopped_live" ELSE "stopped"
    /\ UNCHANGED <<active_position, invalidated_candidates, now, returned, emitCtx,
                   rejectedAt, riskLog>>
    /\ UNCHANGED omVars
    /\ UNCHANGED rmVars
    /\ UNCHANGED tpVars
    /\ UNCHANGED seVars
    /\ UNCHANGED cfVars
    /\ UNCHANGED wkVars
    /\ UNCHANGED ksVars

\* five minutes pass and one more 5m bar closes; a rejection whose cooldown
\* has run out is dropped from the history
Tick ==
    /\ now < MaxTime
    /\ now' = now + 1
    /\ rejectedAt' = [b \in Bars |->
                        IF rejectedAt[b] # NoTime /\ (now + 1 - rejectedAt[b]) < CooldownTicks
                        THEN rejectedAt[b] ELSE NoTime]
    /\ outcome' = "ok"
    /\ UNCHANGED <<state, candidate, active_position, invalidated_candidates,
                   kline_worker, returned, emitCtx, riskLog>>
    /\ UNCHANGED omVars
    /\ UNCHANGED rmVars
    /\ UNCHANGED tpVars
    /\ UNCHANGED seVars
    /\ UNCHANGED cfVars
    /\ UNCHANGED wkVars
    /\ UNCHANGED ksVars

\* a caller of RiskManager.check_entry_risk; approvals are remembered
CheckEntryRisk ==
    /\ Cardinality(riskLog) < MaxRiskLog
    /\ \E entry \in Closes, stop \in CandPrices, side \in Sides, tier \in Tiers, lev \in Leverages :
         /\ (side = "long") = (entry > stop)
         /\ check_entry_risk(DefaultRiskManager, entry, stop, side, tier, lev).entry_allowed
         /\ riskLog' = riskLog \cup {[entry |-> entry, stop |-> stop, side |-> side, tier |-> tier]}
    /\ outcome' = "ok"
    /\ UNCHANGED <<state, candidate, active_position, invalidated_candidates, now,
                   kline_worker, returned, emitCtx, rejectedAt>>
    /\ UNCHANGED omVars
    /\ UNCHANGED rmVars
    /\ UNCHANGED tpVars
    /\ UNCHANGED seVars
    /\ UNCHANGED cfVars
    /\ UNCHANGED wkVars
    /\ UNCHANGED ksVars

Next ==
    \/ RunCycle
    \/ StartMtf
    \/ StopMtf
    \/ Tick

Spec == Init /\ [][Next]_vars

\* the run cycles together with callers of the entry risk check
NextRisk ==
    \/ RunCycle
    \/ CheckEntryRisk

SpecRisk == Init /\ [][NextRisk]_vars

\* a caller of RiskManager.check_entry_risk, on a manager of either
\* configuration
CallCheckEntryRisk ==
    /\ riskCall = None
    /\ \E rm \in RiskManagers, entry \in RiskEntries, stop \in RiskStops,
          side \in Sides, tier \in RiskTiers, leverage \in RiskLeverages :
         LET raised == check_entry_risk_raises(entry, leverage)
         IN riskCall' = Some([rm |-> rm, entry |-> entry, stop |-> stop, side |-> side,
                              tier |-> tier, leverage |-> leverage,
                              raised |-> raised,
                              result |-> IF raised # None THEN None
                                         ELSE check_entry_risk(rm, entry, stop, side,
                                                               tier, leverage)])
    /\ UNCHANGED smVars
    /\ UNCHANGED omVars
    /\ UNCHANGED tpVars
    /\ UNCHANGED seVars
    /\ UNCHANGED cfVars
    /\ UNCHANGED wkVars
    /\ UNCHANGED ksVars

\* the caller has consumed the result, or the exception has propagated
RmReturn ==
    /\ riskCall # None
    /\ riskCall' = None
    /\ UNCHANGED smVars
    /\ UNCHANGED omVars
    /\ UNCHANGED tpVars
    /\ UNCHANGED seVars
    /\ UNCHANGED cfVars
    /\ UNCHANGED wkVars
    /\ UNCHANGED ksVars

NextRM ==
    \/ CallCheckEntryRisk
    \/ RmReturn

SpecRM == Init /\ [][NextRM]_vars

\* --------------------------------------------------- TPSLManager callers
\* TPSLManager.create_position; an id already stored is overwritten
CreatePosition ==
    /\ \E id \in PositionIds, entry_price \in TpEntries, stop_loss \in TpStops,
          side \in Sides, quantity \in TpQuantities, regime \in Regimes,
          atr \in TpAtrs :
         LET p == NewPosition(entry_price, stop_loss, side, quantity, regime, atr,
                              tpClock)
         IN /\ positions' = Store(positions, id, p)
            /\ tpResult' = Some([op |-> "create_position", position |-> p])
    /\ UNCHANGED tpClock
    /\ UNCHANGED smVars
    /\ UNCHANGED omVars
    /\ UNCHANGED rmVars
    /\ UNCHANGED seVars
    /\ UNCHANGED cfVars
    /\ UNCHANGED wkVars
    /\ UNCHANGED ksVars

CheckTpHits ==
    /\ \E id \in PositionIds, current_price \in TpPrices :
         IF id \notin DOMAIN positions
         THEN /\ tpResult' = Some(NotFound("check_tp_hits"))
              /\ UNCHANGED positions
         ELSE LET r == check_tp_hits(positions[id], current_price)
              IN /\ positions' = Store(positions, id, r.position)
                 /\ tpResult' = Some(r.result)
    /\ UNCHANGED tpClock
    /\ UNCHANGED smVars
    /\ UNCHANGED omVars
    /\ UNCHANGED rmVars
    /\ UNCHANGED seVars
    /\ UNCHANGED cfVars
    /\ UNCHANGED wkVars
    /\ UNCHANGED ksVars

UpdateTrailingStop ==
    /\ \E id \in PositionIds, current_price \in TpPrices :
         IF id \notin DOMAIN positions
         THEN /\ tpResult' = Some(NotFound("update_trailing_stop"))
              /\ UNCHANGED positions
         ELSE LET r == update_trailing_stop(positions[id], current_price)
              IN /\ positions' = Store(positions, id, r.position)
                 /\ tpResult' = Some(r.result)
    /\ UNCHANGED tpClock
    /\ UNCHANGED smVars
    /\ UNCHANGED omVars
    /\ UNCHANGED rmVars
    /\ UNCHANGED seVars
    /\ UNCHANGED cfVars
    /\ UNCHANGED wkVars
    /\ UNCHANGED ksVars

CheckTimeStop ==
    /\ \E id \in PositionIds :
         IF id \notin DOMAIN positions
         THEN tpResult' = Some(NotFound("check_time_stop"))
         ELSE tpResult' = Some(check_time_stop(positions[id], tpClock))
    /\ UNCHANGED <<positions, tpClock>>
    /\ UNCHANGED smVars
    /\ UNCHANGED omVars
    /\ UNCHANGED rmVars
    /\ UNCHANGED seVars
    /\ UNCHANGED cfVars
    /\ UNCHANGED wkVars
    /\ UNCHANGED ksVars

CheckEarlyReduce ==
    /\ \E id \in PositionIds, reversal_signal \in BOOLEAN :
         IF id \notin DOMAIN positions
         THEN /\ tpResult' = Some(NotFound("check_early_reduce"))
              /\ UNCHANGED positions
         ELSE LET r == check_early_reduce(positions[id], reversal_signal)
              IN /\ positions' = Store(positions, id, r.position)
                 /\ tpResult' = Some(r.result)
    /\ UNCHANGED tpClock
    /\ UNCHANGED smVars
    /\ UNCHANGED omVars
    /\ UNCHANGED rmVars
    /\ UNCHANGED seVars
    /\ UNCHANGED cfVars
    /\ UNCHANGED wkVars
    /\ UNCHANGED ksVars

ClosePosition ==
    /\ \E id \in PositionIds :
         /\ positions' = close_position(positions, id)
         /\ tpResult' = Some([op |-> "close_position"])
    /\ UNCHANGED tpClock
    /\ UNCHANGED smVars
    /\ UNCHANGED omVars
    /\ UNCHANGED rmVars
    /\ UNCHANGED seVars
    /\ UNCHANGED cfVars
    /\ UNCHANGED wkVars
    /\ UNCHANGED ksVars

\* the wall clock, read every twelve hours
TpTick ==
    /\ tpClock + 12 <= MaxClock
    /\ tpClock' = tpClock + 12
    /\ UNCHANGED <<positions, tpResult>>
    /\ UNCHANGED smVars
    /\ UNCHANGED omVars
    /\ UNCHANGED rmVars
    /\ UNCHANGED seVars
    /\ UNCHANGED cfVars
    /\ UNCHANGED wkVars
    /\ UNCHANGED ksVars

NextTP ==
    \/ CreatePosition
    \/ CheckTpHits
    \/ UpdateTrailingStop
    \/ CheckTimeStop
    \/ CheckEarlyReduce
    \/ ClosePosition
    \/ TpTick

SpecTP == Init /\ [][NextTP]_vars

\* a caller of calculate_tp_sl_levels on a manager of any configured ladder
CalculateTpSlLevels ==
    /\ tpResult = None
    /\ \E mgr \in TpManagers, entry_price \in TpEntries, stop_loss \in TpStops,
          side \in Sides, regime \in AllRegimes, atr \in TpAtrs :
         tpResult' = Some([op |-> "calculate_tp_sl_levels", mgr |-> mgr,
                           levels |-> calculate_tp_sl_levels_of(mgr, entry_price, stop_loss,
                                                                side, regime, atr)])
    /\ UNCHANGED <<positions, tpClock>>
    /\ UNCHANGED smVars
    /\ UNCHANGED omVars
    /\ UNCHANGED rmVars
    /\ UNCHANGED seVars
    /\ UNCHANGED cfVars
    /\ UNCHANGED wkVars
    /\ UNCHANGED ksVars

\* the caller has consumed the levels
TlReturn ==
    /\ tpResult # None
    /\ tpResult' = None
    /\ UNCHANGED <<positions, tpClock>>
    /\ UNCHANGED smVars
    /\ UNCHANGED omVars
    /\ UNCHANGED rmVars
    /\ UNCHANGED seVars
    /\ UNCHANGED cfVars
    /\ UNCHANGED wkVars
    /\ UNCHANGED ksVars

NextTL ==
    \/ CalculateTpSlLevels
    \/ TlReturn

SpecTL == Init /\ [][NextTL]_vars

\* ------------------------------------------------- signal engine callers
\* a caller of signal_engine.micro_confirm (scalp_card, lines 79-85); the
\* function is synchronous, one call is served at a time
CallMicroConfirm ==
    /\ seCall = None
    /\ \E i \in SeIndices, tail \in SeTails, side \in Sides,
          confirm_window \in ConfirmWindows, enable_micro_gate \in BOOLEAN :
         LET df == SeFrame(i, tail)
             snaps == SeSnaps(i, tail)
         IN seCall' = Some([op |-> "micro_confirm", df |-> df, i |-> i, side |-> side,
                            confirm_window |-> confirm_window,
                            enable_micro_gate |-> enable_micro_gate, snaps |-> snaps,
                            result |-> micro_confirm_engine(df, i, side, confirm_window,
                                                            enable_micro_gate, snaps)])
    /\ UNCHANGED smVars
    /\ UNCHANGED omVars
    /\ UNCHANGED rmVars
    /\ UNCHANGED tpVars
    /\ UNCHANGED cfVars
    /\ UNCHANGED wkVars
    /\ UNCHANGED ksVars

\* a caller of signal_engine.mark_candidates (latest_signal, line 14)
CallMarkCandidates ==
    /\ seCall = None
    /\ \E row \in SeRows, has_obv \in BOOLEAN :
         \* a frame without the column has no z-score on its rows
         /\ has_obv \/ row.OBV_z10 = None
         /\ seCall' = Some([op |-> "mark_candidates", row |-> row, has_obv |-> has_obv,
                            result |-> mark_candidates(row, has_obv)])
    /\ UNCHANGED smVars
    /\ UNCHANGED omVars
    /\ UNCHANGED rmVars
    /\ UNCHANGED tpVars
    /\ UNCHANGED cfVars
    /\ UNCHANGED wkVars
    /\ UNCHANGED ksVars

\* MTFStateMachine.scan reaching a row of the frame (compute_indicators always
\* adds the OBV_z10 column)
CallScanRow ==
    /\ seCall = None
    /\ \E row \in SeRows :
         seCall' = Some([op |-> "scan", row |-> row, result |-> scan_row(row)])
    /\ UNCHANGED smVars
    /\ UNCHANGED omVars
    /\ UNCHANGED rmVars
    /\ UNCHANGED tpVars
    /\ UNCHANGED cfVars
    /\ UNCHANGED wkVars
    /\ UNCHANGED ksVars

\* MTFStateMachine.scan on a whole frame, nothing in cooldown
CallScanFrame ==
    /\ seCall = None
    /\ \E t \in ScanTimes, price \in CandPrices :
         \E frame \in {f \in [ScanRange(t) -> FrameKinds] : PossibleFrame(f)} :
            seCall' = Some([op |-> "scan_frame", t |-> t, frame |-> frame,
                            result |-> scan(frame, price, NoCooldown, t)])
    /\ UNCHANGED smVars
    /\ UNCHANGED omVars
    /\ UNCHANGED rmVars
    /\ UNCHANGED tpVars
    /\ UNCHANGED cfVars
    /\ UNCHANGED wkVars
    /\ UNCHANGED ksVars

\* the caller has consumed the result
SeReturn ==
    /\ seCall # None
    /\ seCall' = None
    /\ UNCHANGED smVars
    /\ UNCHANGED omVars
    /\ UNCHANGED rmVars
    /\ UNCHANGED tpVars
    /\ UNCHANGED cfVars
    /\ UNCHANGED wkVars
    /\ UNCHANGED ksVars

NextSE ==
    \/ CallMicroConfirm
    \/ CallMarkCandidates
    \/ CallScanRow
    \/ CallScanFrame
    \/ SeReturn

SpecSE == Init /\ [][NextSE]_vars

\* ------------------------------------------- EnhancedConfluenceEngine
\* Scores are kept in sixths of a point (a tape leg is a third of 10 points),
\* percentages in sixths of a percent.
B2N(b) == IF b THEN 1 ELSE 0

\* macro_gates.check_macro_alignment: aligned_4h and aligned_1d count the
\* ordered EMA pairs (0..3); score is in sixths of 100
check_macro_alignment(aligned_4h, aligned_1d) ==
    LET macro_aligned == aligned_4h >= 2 /\ aligned_1d >= 2
    IN [macro_aligned |-> macro_aligned,
        tier_clearance |-> IF macro_aligned THEN "A" ELSE "B",
        score |-> aligned_4h + aligned_1d]

\* alignment ratios are in halves (0, 1, 2)
compute_context_score(context_gate_result, macro_result) ==
    LET ema_alignment == (context_gate_result.ema_15m + context_gate_result.ema_1h) * 30
        oscillator_agreement == (B2N(context_gate_result.osc_15m_ok)
                                 + B2N(context_gate_result.osc_1h_ok)) * 30
        pivot_structure == B2N(context_gate_result.pivot_ok) * 60
        macro_gate == macro_result.score * 10
        total == ema_alignment + oscillator_agreement + pivot_structure + macro_gate
    IN [total |-> total, percentage |-> total * 2]

compute_micro_score(trigger_result, impulse_result, tape_result, veto_result) ==
    LET trigger_5m == (B2N(trigger_result.trigger_ok) + B2N(trigger_result.volume_ok)) * 60
        impulse_1m == (B2N(impulse_result.rsi_hold_ok) + B2N(impulse_result.bos_ok)
                       + B2N(impulse_result.volume_ok)) * 30
        tape_micro == (B2N(tape_result.cvd_ok) + B2N(tape_result.obi_ok)
                       + B2N(tape_result.vwap_ok)) * 20
        veto_hygiene_leg == IF veto_result.any_veto THEN 0 ELSE 30
        total == trigger_5m + impulse_1m + tape_micro + veto_hygiene_leg
    IN [total |-> total, percentage |-> total * 2]

apply_bottleneck_logic(context_score, micro_score) ==
    LET context_total == context_score.total
        micro_total == micro_score.total
    IN [final_score |-> Min2(context_total, micro_total),
        context_score |-> context_total,
        micro_score |-> micro_total,
        bottleneck |-> IF context_total < micro_total THEN "context"
                       ELSE IF micro_total < context_total THEN "micro"
                       ELSE "balanced"]

compute_full_confluence(context_gate_result, macro_result, trigger_result, impulse_result, tape_result, veto_result) ==
    LET context_score == compute_context_score(context_gate_result, macro_result)
        micro_score == compute_micro_score(trigger_result, impulse_result,
                                           tape_result, veto_result)
        bottleneck == apply_bottleneck_logic(context_score, micro_score)
        context_pct == context_score.percentage
        micro_pct == micro_score.percentage
        macro_tier == macro_result.tier_clearance
        tier == IF macro_tier = "A" /\ context_pct >= 450 /\ micro_pct >= 480
                   /\ ~veto_result.any_veto THEN "A"
                ELSE IF context_pct >= 360 /\ micro_pct >= 420
                        /\ ~veto_result.any_veto THEN "B"
                ELSE "SKIP"
    IN [final_score |-> bottleneck.final_score,
        tier |-> tier,
        context |-> context_score,
        micro |-> micro_score,
        bottleneck |-> bottleneck,
        details |-> [context_percentage |-> context_pct,
                     micro_percentage |-> micro_pct,
                     macro_tier_clearance |-> macro_tier,
                     veto_triggered |-> veto_result.any_veto]]

\* ------------------------------------------------ confluence inputs
AlignedCounts == 0..3
ContextGateResults ==
    [ema_15m : 0..2, ema_1h : 0..2, osc_15m_ok : BOOLEAN, osc_1h_ok : BOOLEAN,
     pivot_ok : BOOLEAN]
TriggerResults == [trigger_ok : BOOLEAN, volume_ok : BOOLEAN]
\* the legs count their passed checks: one result per count
ImpulseResults ==
    {[rsi_hold_ok |-> n >= 1, bos_ok |-> n >= 2, volume_ok |-> n >= 3] : n \in 0..3}
TapeResults ==
    {[cvd_ok |-> n >= 1, obi_ok |-> n >= 2, vwap_ok |-> n >= 3] : n \in 0..3}
VetoResults == [any_veto : BOOLEAN]

\* MTFConfluenceEngine.evaluate: the totals its weights allow, in points
\* (context: 15 + 10 + 10 + 10 + 0; micro without the hygiene leg: 20 + 15 + 10 + 2)
EngineContextTotals == {0, 25, 35, 45}
EngineMicroOtherTotals == {0, 32, 47}
\* compute_final_confluence takes any two floats
FinalScores == {0, 45, 50, 60, 70, 75, 80, 100}

\* ------------------------------------------------ confluence callers
CallComputeFullConfluence ==
    /\ cfCall = None
    /\ \E context_gate_result \in ContextGateResults,
          aligned_4h \in AlignedCounts, aligned_1d \in AlignedCounts,
          trigger_result \in TriggerResults, impulse_result \in ImpulseResults,
          tape_result \in TapeResults, veto_result \in VetoResults :
         cfCall' = Some([op |-> "compute_full_confluence",
                         result |-> compute_full_confluence(
                                        context_gate_result,
                                        check_macro_alignment(aligned_4h, aligned_1d),
                                        trigger_result, impulse_result, tape_result,
                                        veto_result)])
    /\ UNCHANGED smVars
    /\ UNCHANGED omVars
    /\ UNCHANGED rmVars
    /\ UNCHANGED tpVars
    /\ UNCHANGED seVars
    /\ UNCHANGED wkVars
    /\ UNCHANGED ksVars

\* a caller of MTFConfluenceEngine.evaluate
CallEvaluate ==
    /\ cfCall = None
    /\ \E ctx \in EngineContextTotals, other \in EngineMicroOtherTotals,
          snap \in Snapshots :
         cfCall' = Some([op |-> "evaluate", any_veto |-> (snap = "veto"), snap |-> snap,
                         result |-> evaluate(ctx, other, snap)])
    /\ UNCHANGED smVars
    /\ UNCHANGED omVars
    /\ UNCHANGED rmVars
    /\ UNCHANGED tpVars
    /\ UNCHANGED seVars
    /\ UNCHANGED wkVars
    /\ UNCHANGED ksVars

\* veto_system.check_spread_veto: the result starts as "no veto" and is
\* returned untouched when there is no snapshot or the snapshot is not ok
check_spread_veto(snap) ==
    IF snap \in {"none", "not_ok"} THEN [veto |-> FALSE, reason |-> None]
    ELSE IF snap = "veto" THEN [veto |-> TRUE, reason |-> Some("Spread too wide")]
    ELSE [veto |-> FALSE, reason |-> None]

\* a caller of check_spread_veto (run_comprehensive_veto_checks)
CallCheckSpreadVeto ==
    /\ cfCall = None
    /\ \E snap \in Snapshots :
         cfCall' = Some([op |-> "check_spread_veto", snap |-> snap,
                         result |-> check_spread_veto(snap)])
    /\ UNCHANGED smVars
    /\ UNCHANGED omVars
    /\ UNCHANGED rmVars
    /\ UNCHANGED tpVars
    /\ UNCHANGED seVars
    /\ UNCHANGED wkVars
    /\ UNCHANGED ksVars

CallComputeFinalConfluence ==
    /\ cfCall = None
    /\ \E context_score \in FinalScores, micro_score \in FinalScores :
         cfCall' = Some([op |-> "compute_final_confluence",
                         result |-> compute_final_confluence(context_score, micro_score)])
    /\ UNCHANGED smVars
    /\ UNCHANGED omVars
    /\ UNCHANGED rmVars
    /\ UNCHANGED tpVars
    /\ UNCHANGED seVars
    /\ UNCHANGED wkVars
    /\ UNCHANGED ksVars

\* the caller has consumed the result
CfReturn ==
    /\ cfCall # None
    /\ cfCall' = None
    /\ UNCHANGED smVars
    /\ UNCHANGED omVars
    /\ UNCHANGED rmVars
    /\ UNCHANGED tpVars
    /\ UNCHANGED seVars
    /\ UNCHANGED wkVars
    /\ UNCHANGED ksVars

NextCF ==
    \/ CallComputeFullConfluence
    \/ CallEvaluate
    \/ CallComputeFinalConfluence
    \/ CallCheckSpreadVeto
    \/ CfReturn

SpecCF == Init /\ [][NextCF]_vars

\* ------------------------------------------- run cycles on favourable data
\* The run cycles of a feed that gives the machine every chance to signal:
\* each scanned frame holds an extremum that passes the gates, no call
\* fails, the snapshot is clean, and the confluence totals range over what
\* the engine's weights can add up to (EngineContextTotals: at most 45 of
\* the 100 points, mtf_confluence.py lines 60-66; micro at most 47 + 3).
\* micro_confirm itself hands evaluate() no higher-timeframe features (lines
\* 239-243), which is the total 0 of that set.
FavourableFrames(t) ==
    {frame \in [ScanRange(t) -> FrameKinds] : \E i \in ScanRange(t) : PassesGates(frame[i])}

RunScanFavourable == ScanStep(FavourableFrames(now), {FALSE})

RunMicroConfirmEngine ==
    MicroConfirmStep(EngineContextTotals, EngineMicroOtherTotals, {"clean"}, {FALSE})

RunCycleFavourable ==
    \/ RunScanFavourable
    \/ RunCandidate
    \/ RunMicroConfirmEngine

NextSig ==
    \/ RunCycleFavourable
    \/ Tick

\* the monitor loop calls run() again and again
SpecSig == Init /\ [][NextSig]_vars /\ WF_vars(RunCycleFavourable)

\* ----------------------------------------------------------- stream workers
\* A worker is the object together with the task running its start().  pos:
\*   "created"    asyncio.create_task done, start() has not run yet
\*   "streaming"  inside `async for message in ws`
\*   "backoff"    _connect_and_stream has returned or raised
\*   "done"       start() has returned
\* closing: stop() has asked the websocket to close
NewWorker(kind) == [kind |-> kind, running |-> FALSE, pos |-> "created", closing |-> FALSE]

WorkerIds == DOMAIN workers

\* `w and w.running` for a module-level worker reference
ref_running(ref) == ref # None /\ workers[ref[1]].running

\* routers/mtf.py start_mtf, lines 41-56: the worker object is created and
\* its task scheduled; running is set by the task, not here
StartMtfWorker ==
    /\ ~ref_running(kline_worker_ref)
    /\ Len(workers) < MaxWorkers
    /\ workers' = Append(workers, NewWorker("kline"))
    /\ kline_worker_ref' = Some(Len(workers) + 1)
    /\ UNCHANGED <<mexc_worker, lastWrite>>
    /\ UNCHANGED smVars
    /\ UNCHANGED omVars
    /\ UNCHANGED rmVars
    /\ UNCHANGED tpVars
    /\ UNCHANGED seVars
    /\ UNCHANGED cfVars
    /\ UNCHANGED ksVars

\* BinanceKlineWorker.stop, lines 63-65
stop_kline(w) == [w EXCEPT !.running = FALSE]

\* routers/mtf.py stop_mtf, lines 90-99
StopMtfWorker ==
    /\ ref_running(kline_worker_ref)
    /\ workers' = [workers EXCEPT ![kline_worker_ref[1]] = stop_kline(@)]
    /\ kline_worker_ref' = None
    /\ UNCHANGED <<mexc_worker, lastWrite>>
    /\ UNCHANGED smVars
    /\ UNCHANGED omVars
    /\ UNCHANGED rmVars
    /\ UNCHANGED tpVars
    /\ UNCHANGED seVars
    /\ UNCHANGED cfVars
    /\ UNCHANGED ksVars

\* workers/mexc_stream.py start_mexc_worker
StartMexcWorker ==
    /\ ~ref_running(mexc_worker)
    /\ Len(workers) < MaxWorkers
    /\ workers' = Append(workers, NewWorker("micro"))
    /\ mexc_worker' = Some(Len(workers) + 1)
    /\ UNCHANGED <<kline_worker_ref, lastWrite>>
    /\ UNCHANGED smVars
    /\ UNCHANGED omVars
    /\ UNCHANGED rmVars
    /\ UNCHANGED tpVars
    /\ UNCHANGED seVars
    /\ UNCHANGED cfVars
    /\ UNCHANGED ksVars

\* MexcStreamWorker.stop, lines 82-92: the websocket is closed when one is open
stop_mexc(w) == [w EXCEPT !.running = FALSE, !.closing = (w.pos = "streaming")]

\* workers/mexc_stream.py stop_mexc_worker; stop() also resets the snapshot slot
StopMexcWorker ==
    /\ mexc_worker # None
    /\ workers' = [workers EXCEPT ![mexc_worker[1]] = stop_mexc(@)]
    /\ mexc_worker' = None
    /\ lastWrite' = [lastWrite EXCEPT !.micro = 0]
    /\ UNCHANGED kline_worker_ref
    /\ UNCHANGED smVars
    /\ UNCHANGED omVars
    /\ UNCHANGED rmVars
    /\ UNCHANGED tpVars
    /\ UNCHANGED seVars
    /\ UNCHANGED cfVars
    /\ UNCHANGED ksVars

\* the first step of start(): running = True, then connect and stream
WorkerStart ==
    /\ \E w \in WorkerIds :
         /\ workers[w].pos = "created"
         /\ workers' = [workers EXCEPT ![w] = [@ EXCEPT !.running = TRUE,
                                                       !.pos = "streaming"]]
    /\ UNCHANGED <<kline_worker_ref, mexc_worker, lastWrite>>
    /\ UNCHANGED smVars
    /\ UNCHANGED omVars
    /\ UNCHANGED rmVars
    /\ UNCHANGED tpVars
    /\ UNCHANGED seVars
    /\ UNCHANGED cfVars
    /\ UNCHANGED ksVars

\* _handle_message: update_kline("1s", ...) or set_snapshot(...); the loop
\* does not look at running.  stop() only schedules ws.close() as a task of
\* its own (mexc_stream.py line 89), so a message the connection has already
\* delivered is still handled until the close has gone through (WorkerDrop).
WorkerMessage ==
    /\ \E w \in WorkerIds :
         /\ workers[w].pos = "streaming"
         /\ lastWrite[workers[w].kind] # w
         /\ lastWrite' = [lastWrite EXCEPT ![workers[w].kind] = w]
    /\ UNCHANGED <<workers, kline_worker_ref, mexc_worker>>
    /\ UNCHANGED smVars
    /\ UNCHANGED omVars
    /\ UNCHANGED rmVars
    /\ UNCHANGED tpVars
    /\ UNCHANGED seVars
    /\ UNCHANGED cfVars
    /\ UNCHANGED ksVars

\* the connection ends: closed by stop(), dropped by the peer, or an error
WorkerDrop ==
    /\ \E w \in WorkerIds :
         /\ workers[w].pos = "streaming"
         /\ workers' = [workers EXCEPT ![w] = [@ EXCEPT !.pos = "backoff",
                                                       !.closing = FALSE]]
    /\ UNCHANGED <<kline_worker_ref, mexc_worker, lastWrite>>
    /\ UNCHANGED smVars
    /\ UNCHANGED omVars
    /\ UNCHANGED rmVars
    /\ UNCHANGED tpVars
    /\ UNCHANGED seVars
    /\ UNCHANGED cfVars
    /\ UNCHANGED ksVars

\* `while self.running`: reconnect, or leave start()
loop_check(w) == [w EXCEPT !.pos = IF w.running THEN "streaming" ELSE "done"]

WorkerLoop ==
    /\ \E w \in WorkerIds :
         /\ workers[w].pos = "backoff"
         /\ workers' = [workers EXCEPT ![w] = loop_check(@)]
    /\ UNCHANGED <<kline_worker_ref, mexc_worker, lastWrite>>
    /\ UNCHANGED smVars
    /\ UNCHANGED omVars
    /\ UNCHANGED rmVars
    /\ UNCHANGED tpVars
    /\ UNCHANGED seVars
    /\ UNCHANGED cfVars
    /\ UNCHANGED ksVars

NextWK ==
    \/ StartMtfWorker
    \/ StopMtfWorker
    \/ StartMexcWorker
    \/ StopMexcWorker
    \/ WorkerStart
    \/ WorkerMessage
    \/ WorkerDrop
    \/ WorkerLoop

SpecWK == Init /\ [][NextWK]_vars

\* ------------------------------------------------------ candle store feeds
\* BinanceKlineWorker._handle_message: the next closed 1s kline of the
\* stream is stored and, every fifth second, the 5s store is resampled
KlineClosed ==
    /\ streamTs < MaxStreamTs
    /\ streamTs' = streamTs + 1
    /\ kline_stores' = process_kline(kline_stores, streamTs + 1)
    /\ UNCHANGED restBar
    /\ UNCHANGED smVars
    /\ UNCHANGED omVars
    /\ UNCHANGED rmVars
    /\ UNCHANGED tpVars
    /\ UNCHANGED seVars
    /\ UNCHANGED cfVars
    /\ UNCHANGED wkVars

\* one pass of the loop of BinanceRestClient.periodic_update("15m")
PeriodicUpdate ==
    /\ Len(kline_stores["15m"]) + PollKeep <= MaxStoreLen
    /\ kline_stores' = update_klines(kline_stores, "15m", latest_klines(restBar))
    /\ UNCHANGED <<streamTs, restBar>>
    /\ UNCHANGED smVars
    /\ UNCHANGED omVars
    /\ UNCHANGED rmVars
    /\ UNCHANGED tpVars
    /\ UNCHANGED seVars
    /\ UNCHANGED cfVars
    /\ UNCHANGED wkVars

\* a 15m bar closes at the REST source
RestBarCloses ==
    /\ restBar < MaxRestBar
    /\ restBar' = restBar + 1
    /\ UNCHANGED <<kline_stores, streamTs>>
    /\ UNCHANGED smVars
    /\ UNCHANGED omVars
    /\ UNCHANGED rmVars
    /\ UNCHANGED tpVars
    /\ UNCHANGED seVars
    /\ UNCHANGED cfVars
    /\ UNCHANGED wkVars

NextKS ==
    \/ KlineClosed
    \/ PeriodicUpdate
    \/ RestBarCloses

SpecKS == Init /\ [][NextKS]_vars

\* ----------------------------------------------------- order manager steps
\* a caller places a post-only order at the book it sees; room is left for
\* the reposts of one protocol call
PlacePostOnlyOrder ==
    /\ Len(orders) + 1 + max_slip_attempts <= MaxOrders
    /\ \E side \in Sides :
         LET p == place_post_only_order(orders, active_orders, side, book.bid, book.ask,
                                        "caller")
         IN /\ orders' = p.orders
            /\ active_orders' = p.active_orders
    /\ UNCHANGED <<proto, book>>
    /\ UNCHANGED smVars
    /\ UNCHANGED rmVars
    /\ UNCHANGED tpVars
    /\ UNCHANGED seVars
    /\ UNCHANGED cfVars
    /\ UNCHANGED wkVars
    /\ UNCHANGED ksVars

\* a caller cancels an order
CancelOrder ==
    /\ \E id \in DOMAIN orders :
         LET c == cancel_order(orders, active_orders, id)
         IN /\ c.ok
            /\ orders' = c.orders
            /\ active_orders' = c.active_orders
    /\ UNCHANGED <<proto, book>>
    /\ UNCHANGED smVars
    /\ UNCHANGED rmVars
    /\ UNCHANGED tpVars
    /\ UNCHANGED seVars
    /\ UNCHANGED cfVars
    /\ UNCHANGED wkVars
    /\ UNCHANGED ksVars

\* the exchange fills an open order (Order.status, read by check_order_fill)
FillOrder ==
    /\ \E id \in DOMAIN orders :
         /\ orders[id].status = "open"
         /\ orders' = [orders EXCEPT ![id].status = "filled"]
    /\ UNCHANGED <<active_orders, proto, book>>
    /\ UNCHANGED smVars
    /\ UNCHANGED rmVars
    /\ UNCHANGED tpVars
    /\ UNCHANGED seVars
    /\ UNCHANGED cfVars
    /\ UNCHANGED wkVars
    /\ UNCHANGED ksVars

\* the order book moves
BookMove ==
    /\ \E b \in Books : b # book /\ book' = b
    /\ UNCHANGED <<orders, active_orders, proto>>
    /\ UNCHANGED smVars
    /\ UNCHANGED rmVars
    /\ UNCHANGED tpVars
    /\ UNCHANGED seVars
    /\ UNCHANGED cfVars
    /\ UNCHANGED wkVars
    /\ UNCHANGED ksVars

\* unfilled_protocol is called on an order with the book the caller sees, and
\* runs to its first wait (lines 320-331); one call at a time
ProtoStart ==
    /\ IF proto = None THEN TRUE ELSE proto[1].pc = "done"
    /\ Len(orders) + max_slip_attempts <= MaxOrders
    /\ \E id \in DOMAIN orders, urgent \in BOOLEAN :
         proto' = Some(ProtoFrame(id, orders[id].price, 1, urgent, book.bid, book.ask,
                                  {id}))
    /\ UNCHANGED <<orders, active_orders, book>>
    /\ UNCHANGED smVars
    /\ UNCHANGED rmVars
    /\ UNCHANGED tpVars
    /\ UNCHANGED seVars
    /\ UNCHANGED cfVars
    /\ UNCHANGED wkVars
    /\ UNCHANGED ksVars

\* unfilled_protocol from the end of a wait to the next wait or to its return
\* (lines 333-406)
ProtoWake ==
    /\ proto # None
    /\ proto[1].pc = "sleep"
    /\ LET f == proto[1]
           order == orders[f.order]
           new_price == slip_price(order.side, f.original_price, f.current_attempt)
           c == cancel_order(orders, active_orders, f.order)
           p == place_post_only_order(c.orders, c.active_orders, order.side,
                                      f.best_bid, f.best_ask, "repost")
           reposted == [p.orders EXCEPT ![p.order_id].price = new_price,
                                        ![p.order_id].slip_ref = f.original_price]
           g == [f EXCEPT !.order = p.order_id, !.held = f.held \cup {p.order_id}]
       IN IF check_order_fill(orders, f.order).filled
          THEN /\ proto' = Some(ProtoDone(f, TRUE, "filled", f.order))
               /\ UNCHANGED <<orders, active_orders>>
          ELSE IF slip_cap_exceeded(new_price, f.original_price)
          THEN /\ proto' = Some(ProtoDone(f, FALSE, "slip_cap_exceeded", 0))
               /\ orders' = c.orders
               /\ active_orders' = c.active_orders
          ELSE IF more_attempts(f.current_attempt)
          THEN /\ proto' = Some(ProtoFrame(p.order_id, f.original_price,
                                           f.current_attempt + 1, f.is_urgent,
                                           f.best_bid, f.best_ask, g.held))
               /\ orders' = reposted
               /\ active_orders' = p.active_orders
          ELSE IF f.is_urgent
          THEN /\ proto' = Some(ProtoDone(g, TRUE, "urgent_market_fallback", p.order_id))
               /\ orders' = [reposted EXCEPT ![p.order_id].order_type = "market",
                                             ![p.order_id].status = "filled"]
               /\ active_orders' = p.active_orders
          ELSE LET c2 == cancel_order(reposted, p.active_orders, p.order_id)
               IN /\ proto' = Some(ProtoDone(g, FALSE, "max_attempts_reached", 0))
                  /\ orders' = c2.orders
                  /\ active_orders' = c2.active_orders
    /\ UNCHANGED book
    /\ UNCHANGED smVars
    /\ UNCHANGED rmVars
    /\ UNCHANGED tpVars
    /\ UNCHANGED seVars
    /\ UNCHANGED cfVars
    /\ UNCHANGED wkVars
    /\ UNCHANGED ksVars

InitOM ==
    /\ state = "scan"
    /\ candidate = None
    /\ active_position = None
    /\ invalidated_candidates = [i \in Indices |-> NoTime]
    /\ now = 0
    /\ kline_worker = "none"
    /\ returned = None
    /\ outcome = "init"
    /\ emitCtx = None
    /\ rejectedAt = [b \in Bars |-> NoTime]
    /\ riskLog = {}
    /\ orders = <<>>
    /\ active_orders = <<>>
    /\ proto = None
    /\ book \in Books
    /\ riskCall = None
    /\ positions = NoPositions
    /\ tpClock = 0
    /\ tpResult = None
    /\ seCall = None
    /\ cfCall = None
    /\ workers = <<>>
    /\ kline_worker_ref = None
    /\ mexc_worker = None
    /\ lastWrite = [kline |-> 0, micro |-> 0]
    /\ kline_stores = [tf \in Timeframes |-> <<>>]
    /\ streamTs = 0
    /\ restBar = 1

NextOM ==
    \/ PlacePostOnlyOrder
    \/ CancelOrder
    \/ FillOrder
    \/ BookMove
    \/ ProtoStart
    \/ ProtoWake

SpecOM == InitOM /\ [][NextOM]_vars

\* asyncio.sleep returns: a call that is asleep in its wait is resumed
SpecOMLive == SpecOM /\ WF_vars(ProtoWake)

\* ================================================================ properties
\* identity of a held candidate: the confirmation step rewrites two of its
\* fields and leaves these alone
CandKey(c) == <<c[1].index, c[1].bar, c[1].side, c[1].price, c[1].created_at>>

C4_HeldOnlyWhilePending ==
    (candidate # None) <=> (state \in {"candidate", "micro_confirm", "execute"})

C4_TakenOnlyInScan ==
    (candidate' # None /\ (candidate = None \/ CandKey(candidate') # CandKey(candidate)))
        => (state = "scan" /\ candidate = None)

C4_OneLiveCandidate ==
    [](C4_HeldOnlyWhilePending) /\ [][C4_TakenOnlyInScan]_vars

\* a stop request has just discarded a live Candidate, after an earlier
\* Candidate was rejected and another one led to a Signal
C4_Witness ==
    /\ outcome = "stopped_live"
    /\ candidate = None
    /\ active_position # None
    /\ \E i \in Indices : invalidated_candidates[i] # NoTime

C6_FaultResetsToScan ==
    outcome \in {"fault", "fault_live", "error"} =>
        (state = "scan" /\ candidate = None /\ returned = None)

\* a fault has just hit a cycle that held a Candidate, with a Position open
C6_Witness ==
    /\ outcome = "fault_live"
    /\ state = "scan"
    /\ active_position # None

AllowedSteps ==
    {<<"scan", "candidate">>, <<"candidate", "micro_confirm">>,
     <<"micro_confirm", "execute">>, <<"execute", "manage">>, <<"manage", "scan">>}
        \cup {<<s, "scan">> : s \in MTFState}

C10_PostOnlyNeverCrosses ==
    \A i \in DOMAIN orders :
        orders[i].order_type = "post_only" =>
            IF orders[i].side = "long" THEN orders[i].price < orders[i].ask_arg
            ELSE orders[i].price > orders[i].bid_arg

\* the orders a protocol call has placed
RepostsOf(f) == {i \in f.held : orders[i].origin = "repost"}

\* C11: no order is placed, or left open, further from the price its slip is
\* measured from than max_slip_pct percent of that price; the protocol has
\* aborted instead.
C11_SlipWithinCap ==
    \A i \in DOMAIN orders :
        Abs(orders[i].price - orders[i].slip_ref) * SlipCapDivisor <= orders[i].slip_ref

\* a call has aborted on the slip cap after it had reposted with slip
C11_Witness ==
    /\ proto # None
    /\ proto[1].pc = "done"
    /\ proto[1].result.reason = "slip_cap_exceeded"
    /\ \E i \in RepostsOf(proto[1]) : orders[i].price # orders[i].slip_ref

ProtoAsleep == IF proto = None THEN FALSE ELSE proto[1].pc = "sleep"
ProtoEnded == IF proto = None THEN FALSE ELSE proto[1].pc = "done"

C12_WaitsAndRepostsBounded ==
    proto # None =>
        /\ proto[1].current_attempt <= max_slip_attempts
        /\ Cardinality(RepostsOf(proto[1])) <= max_slip_attempts

\* C12: a protocol call makes at most max_slip_attempts timed waits and at
\* most max_slip_attempts reposts, and a call that is waiting ends, whatever
\* fills, cancellations and placements happen meanwhile.
C12_ProtocolTerminates ==
    [](C12_WaitsAndRepostsBounded) /\ (ProtoAsleep ~> ProtoEnded)

\* a call has ended after max_slip_attempts waits and as many reposts
C12_Witness ==
    /\ ProtoEnded
    /\ proto[1].result.attempts = max_slip_attempts
    /\ Cardinality(RepostsOf(proto[1])) = max_slip_attempts

\* C13: a protocol call run with is_urgent = true never ends unfilled.
C13_UrgentEndsFilled ==
    (ProtoEnded /\ proto[1].is_urgent) => proto[1].result.filled

InActive(id) == \E k \in DOMAIN active_orders : active_orders[k] = id

\* C14: a protocol call that has ended without a fill reports a terminal
\* reason, and every order it held (the one it was given and each repost) is
\* cancelled and off the active list.
C14_UnfilledEndReleasesOrders ==
    (ProtoEnded /\ ~proto[1].result.filled) =>
        /\ proto[1].result.reason \in {"slip_cap_exceeded", "max_attempts_reached"}
        /\ \A i \in proto[1].held : orders[i].status = "cancelled" /\ ~InActive(i)

\* a call has ended on exhausted attempts, having held four orders
C14_Witness ==
    /\ ProtoEnded
    /\ proto[1].result.reason = "max_attempts_reached"
    /\ Cardinality(proto[1].held) = max_slip_attempts + 1

\* the latest check_entry_risk call has returned a result
RiskReturned == riskCall # None /\ riskCall[1].raised = None
RiskResult == riskCall[1].result

\* the liq-gap multiplier of a call, |entry - liq_price| / |entry - stop| with
\* liq_price = entry x (1 -/+ 1/leverage +/- 0.005), is at least 3
LiqGapAtLeastThree(c) ==
    /\ c.entry # c.stop
    /\ c.entry * Abs(200 - c.leverage) >= 3 * Abs(c.entry - c.stop) * 200 * c.leverage

\* margin_required = position_size_usd / leverage is within 80% of the balance
MarginWithinBalance(c) ==
    c.result.position_sizing.position_size_usd * 10
        <= 8 * c.rm.account_balance * c.leverage

\* C15 (as stated): check_entry_risk allows the entry if and only if the
\* liq-gap multiplier is at least min_liq_gap_multiplier (3.0), for every
\* entry, stop, side, tier and leverage.
C15_AllowedIffLiqGap ==
    IF ~RiskReturned THEN TRUE
    ELSE RiskResult.entry_allowed <=> LiqGapAtLeastThree(riskCall[1])

\* C15 (amended): check_entry_risk allows the entry if and only if the liq-gap
\* multiplier is at least 3 and the required margin is at most 80% of the
\* account balance; on a manager with the default configuration that is
\* exactly when the liq-gap multiplier is at least 3; a long from entry 100
\* with a 5% stop is rejected at every leverage of 10 or more.
C15_AllowedIffLiqGapAndMargin ==
    IF ~RiskReturned THEN TRUE
    ELSE LET c == riskCall[1]
         IN /\ c.result.entry_allowed
                   <=> (LiqGapAtLeastThree(c) /\ MarginWithinBalance(c))
            /\ c.rm = DefaultRiskManager
                   => (c.result.entry_allowed <=> LiqGapAtLeastThree(c))
            /\ (c.side = "long" /\ c.entry = 1000 /\ c.stop = 950 /\ c.leverage >= 10)
                   => ~c.result.entry_allowed

\* an entry is allowed on a manager whose position size was clamped and whose
\* margin was checked against the balance
C15_Witness ==
    /\ RiskReturned
    /\ riskCall[1].rm # DefaultRiskManager
    /\ RiskResult.position_sizing.position_size_usd
           < riskCall[1].rm.base_position_size
    /\ RiskResult.entry_allowed

\* C16 (as stated): for every tier, entry, stop, leverage and base size, the returned
\* position size times the stop distance (as a fraction of entry) and the
\* reported risk_usd are both at most max_risk_per_trade_pct x account_balance.
C16_RiskWithinCap ==
    IF ~RiskReturned THEN TRUE
    ELSE LET c == riskCall[1]
             z == c.result.position_sizing
             cap == (c.rm.account_balance * c.rm.max_risk_per_trade_pct) \div 100
         IN /\ z.position_size_usd * Abs(c.entry - c.stop) <= cap * c.entry
            /\ z.risk_usd <= cap

\* C16 (amended): for every tier, entry, stop, leverage and base size, the
\* returned position size times the stop distance (as a fraction of entry) is
\* at most max_risk_per_trade_pct x account_balance; the reported risk_usd is
\* the risk of the tier's size before the clamp, risk_ok tells whether it is
\* within the cap, and when it is not the size is reduced so that its risk
\* equals the cap.
C16_SizeRiskWithinCap ==
    IF ~RiskReturned THEN TRUE
    ELSE LET c == riskCall[1]
             z == c.result.position_sizing
             d == Abs(c.entry - c.stop)
             cap == (c.rm.account_balance * c.rm.max_risk_per_trade_pct) \div 100
             tier_size == IF c.tier = "A" THEN c.rm.base_position_size
                          ELSE c.rm.base_position_size \div 2
         IN /\ z.position_size_usd * d <= cap * c.entry
            /\ z.risk_usd * c.entry = tier_size * d
            /\ z.risk_ok <=> z.risk_usd <= cap
            /\ z.risk_ok => z.position_size_usd = tier_size
            /\ ~z.risk_ok => z.position_size_usd * d = cap * c.entry

\* a default manager reduced the position size because the tier's size
\* risked more than the cap
C16_Witness ==
    /\ RiskReturned
    /\ riskCall[1].rm = DefaultRiskManager
    /\ ~RiskResult.position_sizing.risk_ok
    /\ RiskResult.position_sizing.position_size_usd
           < riskCall[1].rm.base_position_size

\* the step is a create_position call (or leaves the positions alone)
CreateStep == tpResult' # None /\ tpResult'[1].op = "create_position"

StopOf(ps, id) == ps[id].trailing_stop.current_stop
StatusOf(ps, id) == ps[id].trailing_stop.status

\* C17: once the trailing stop of a position has left the inactive state, the
\* stop of a long never decreases and the stop of a short never increases,
\* whatever the sequence of calls and prices.
C17_TrailingStopOnlyTightens ==
    [][\A id \in DOMAIN positions :
          (~CreateStep /\ StatusOf(positions, id) # "inactive")
              => /\ positions[id].side = "long"
                      => StopOf(positions', id) >= StopOf(positions, id)
                 /\ positions[id].side = "short"
                      => StopOf(positions', id) <= StopOf(positions, id)]_vars

\* a price update against an actively trailed long left the stop where it was
C17_Witness ==
    /\ "p1" \in DOMAIN positions
    /\ positions["p1"].side = "long"
    /\ StatusOf(positions, "p1") = "active"
    /\ StopOf(positions, "p1") > positions["p1"].entry_price
    /\ tpResult # None
    /\ tpResult[1].op = "update_trailing_stop"
    /\ ~tpResult[1].updated

StatusRank(status) ==
    IF status = "inactive" THEN 0 ELSE IF status = "breakeven" THEN 1 ELSE 2

\* C18: until TP1 has fired the trailing stop is inactive and the stop is at
\* its initial level; the first update_trailing_stop call after TP1 moves the
\* stop exactly to the entry price with status breakeven; the status never
\* moves backwards in the order inactive, breakeven, active.
C18_InactiveThenBreakevenThenActive ==
    /\ [](\A id \in DOMAIN positions :
             ~positions[id].tp_hits.tp1
                 => /\ StatusOf(positions, id) = "inactive"
                    /\ StopOf(positions, id) = positions[id].levels.stop_loss)
    /\ [][\A id \in DOMAIN positions :
             ~CreateStep
                 => /\ StatusRank(StatusOf(positions', id))
                          >= StatusRank(StatusOf(positions, id))
                    /\ (StatusOf(positions, id) = "inactive"
                          /\ StatusOf(positions', id) # "inactive")
                          => /\ StatusOf(positions', id) = "breakeven"
                             /\ StopOf(positions', id) = positions[id].entry_price
                    /\ (positions[id].tp_hits.tp1
                          /\ StatusOf(positions, id) = "inactive"
                          /\ tpClock' = tpClock
                          /\ tpResult'[1].op = "update_trailing_stop")
                          => /\ StatusOf(positions', id) = "breakeven"
                             /\ StopOf(positions', id) = positions[id].entry_price]_vars

\* the first update after TP1 has just moved the stop to breakeven
C18_Witness ==
    /\ "p1" \in DOMAIN positions
    /\ positions["p1"].tp_hits.tp1
    /\ StatusOf(positions, "p1") = "breakeven"
    /\ StopOf(positions, "p1") = positions["p1"].entry_price
    /\ StopOf(positions, "p1") # positions["p1"].levels.stop_loss
    /\ tpResult # None
    /\ tpResult[1].op = "update_trailing_stop"
    /\ tpResult[1].updated

\* the latest call reported a full-exit condition: the time stop, a TP3 hit
\* or a second opposing signal
FullExitReported ==
    /\ tpResult # None
    /\ \/ tpResult[1].op = "check_time_stop" /\ tpResult[1].time_stop_triggered
       \/ tpResult[1].op = "check_tp_hits"
              /\ \E i \in DOMAIN tpResult[1].tp_hits : tpResult[1].tp_hits[i] = "TP3"
       \/ tpResult[1].op = "check_early_reduce" /\ tpResult[1].full_exit

\* C19: a position is destroyed on full exit: once the time stop (24h in
\* normal/wide, 12h in squeeze), a TP3 hit or a second opposing signal has been
\* reported the position is closed, and a closed position has no quantity
\* remaining.
C19_FullExitDestroysPosition ==
    \A id \in DOMAIN positions :
        /\ FullExitReported => positions[id].closed
        /\ positions[id].closed => positions[id].current_quantity = 0

\* C20: the first opposing signal on a position halves its remaining quantity
\* and moves its stop to the entry price.
C20_FirstReversalCutsAndMovesStop ==
    [][\A id \in DOMAIN positions :
          (/\ tpClock' = tpClock
           /\ tpResult' # None
           /\ tpResult'[1].op = "check_early_reduce"
           /\ tpResult'[1].early_reduce_triggered)
              => /\ 2 * positions'[id].current_quantity = positions[id].current_quantity
                 /\ StopOf(positions', id) = positions[id].entry_price]_vars

\* the key of tp_hits and the share of the original quantity of a TP level
TpKey(level) ==
    IF level = "TP1" THEN "tp1" ELSE IF level = "TP2" THEN "tp2" ELSE "tp3"
TpShare(level) ==
    IF level = "TP1" THEN 50 ELSE IF level = "TP2" THEN 30 ELSE 20

\* C21: over any sequence of price updates each of TP1, TP2 and TP3 fires at
\* most once per position: a level fires only while it is not yet marked hit,
\* firing marks it, and a mark is never removed; each firing reports one
\* reduction of 50%, 30% and 20% of the original quantity respectively, and a
\* level already hit reports none.
C21_EachTpFiresOnce ==
    [][\A id \in DOMAIN positions :
          ~CreateStep
             => /\ \A key \in {"tp1", "tp2", "tp3"} :
                      positions[id].tp_hits[key] => positions'[id].tp_hits[key]
                /\ (tpClock' = tpClock /\ tpResult'[1].op = "check_tp_hits")
                      => LET r == tpResult'[1]
                         IN /\ Len(r.reductions) = Len(r.tp_hits)
                            /\ \A i \in DOMAIN r.tp_hits :
                                  /\ ~positions[id].tp_hits[TpKey(r.tp_hits[i])]
                                  /\ positions'[id].tp_hits[TpKey(r.tp_hits[i])]
                                  /\ r.reductions[i].level = r.tp_hits[i]
                                  /\ r.reductions[i].pct = TpShare(r.tp_hits[i])
                                  /\ 100 * r.reductions[i].quantity
                                        = TpShare(r.tp_hits[i])
                                            * positions[id].original_quantity
                                  /\ \A j \in DOMAIN r.tp_hits :
                                        r.tp_hits[j] = r.tp_hits[i] => j = i
                            /\ \A key \in {"tp1", "tp2", "tp3"} :
                                  (~positions[id].tp_hits[key]
                                       /\ positions'[id].tp_hits[key])
                                      => \E i \in DOMAIN r.tp_hits :
                                            TpKey(r.tp_hits[i]) = key]_vars

\* TP3 alone fired on a position whose TP1 and TP2 had fired before, with a
\* reduction of 20% of the original quantity
C21_Witness ==
    /\ "p1" \in DOMAIN positions
    /\ tpResult # None
    /\ tpResult[1].op = "check_tp_hits"
    /\ tpResult[1].tp_hits = <<"TP3">>
    /\ Len(tpResult[1].reductions) = 1
    /\ 100 * tpResult[1].reductions[1].quantity = 20 * positions["p1"].original_quantity
    /\ positions["p1"].tp_hits = [tp1 |-> TRUE, tp2 |-> TRUE, tp3 |-> TRUE]

\* the micro_confirm call being served, and the bar it confirmed at
SeConfirmed ==
    /\ seCall # None
    /\ seCall[1].op = "micro_confirm"
    /\ seCall[1].result.confirm_index # None
SeConfirmIndex == seCall[1].result.confirm_index[1]

\* C22: a missing or stale MicroSnapshot (none, older than the freshness
\* threshold, or ok = false) fails the microstructure gate: no confirmation is
\* produced from it.
C22_StaleOrMissingFailsClosed ==
    (SeConfirmed /\ seCall[1].enable_micro_gate)
        => LET snap == At(seCall[1].snaps, SeConfirmIndex)
           IN /\ snap # None
              /\ snap[1].ok
              /\ snap[1].age <= FreshnessSeconds

\* C23: for every confirmed signal, confirm_index > candidate_index and
\* confirm_index - candidate_index <= confirm_window.
C23_ConfirmWithinWindow ==
    SeConfirmed
        => /\ SeConfirmIndex > seCall[1].i
           /\ SeConfirmIndex - seCall[1].i <= seCall[1].confirm_window

\* the bars of the confirmation window of a call, and the conditions on them
SeWindow(c) ==
    {j \in (c.i + 1)..(c.i + c.confirm_window) : j <= Len(c.df) - 1}
SeBreakoutAndVolume(c, j) ==
    /\ IF c.side = "long" THEN At(c.df, j).close > 105 ELSE At(c.df, j).close < 85
    /\ \/ At(c.df, j).med_vol = None
       \/ 2 * At(c.df, j).Volume >= 3 * At(c.df, j).med_vol[1]
SeGatePasses(c, j) ==
    LET snap == At(c.snaps, j)
    IN /\ snap # None
       /\ snap[1].spread_bps < 10
       /\ IF c.side = "long" THEN snap[1].ladder_imbalance > 15
          ELSE snap[1].ladder_imbalance < -15

\* C24: when a bar of the confirmation window meets the breakout and volume
\* conditions but the microstructure gate fails, the scan goes on: if a later
\* bar of the window meets all the conditions, the candidate is confirmed, at
\* the first bar after the candidate that meets them all.
C24_ScanContinuesAfterMicroVeto ==
    IF seCall = None THEN TRUE
    ELSE LET c == seCall[1]
         IN (c.op = "micro_confirm" /\ c.enable_micro_gate)
              => \A j \in SeWindow(c), k \in SeWindow(c) :
                    (/\ j < k
                     /\ SeBreakoutAndVolume(c, j) /\ ~SeGatePasses(c, j)
                     /\ SeBreakoutAndVolume(c, k) /\ SeGatePasses(c, k))
                        => /\ c.result.confirm_index # None
                           /\ c.result.confirm_index[1] <= k
                           /\ SeBreakoutAndVolume(c, c.result.confirm_index[1])
                           /\ SeGatePasses(c, c.result.confirm_index[1])
                           /\ \A m \in (c.i + 1)..(c.result.confirm_index[1] - 1) :
                                 ~(SeBreakoutAndVolume(c, m) /\ SeGatePasses(c, m))

\* a candidate was confirmed at a bar of the window after an earlier bar of
\* the window had met breakout and volume and been vetoed by the gate
C24_Witness ==
    /\ SeConfirmed
    /\ seCall[1].enable_micro_gate
    /\ SeConfirmIndex \in SeWindow(seCall[1])
    /\ \E j \in SeWindow(seCall[1]) :
          /\ j < SeConfirmIndex
          /\ SeBreakoutAndVolume(seCall[1], j)
          /\ ~SeGatePasses(seCall[1], j)

\* the sides for which the call being served made its row a candidate
SeCandidateSides ==
    IF seCall = None THEN {}
    ELSE IF seCall[1].op = "mark_candidates"
    THEN (IF seCall[1].result.cand_long THEN {"long"} ELSE {})
             \cup (IF seCall[1].result.cand_short THEN {"short"} ELSE {})
    ELSE IF seCall[1].op = "scan" /\ seCall[1].result # None
    THEN {seCall[1].result[1]}
    ELSE {}

CfServed(op) == cfCall # None /\ cfCall[1].op = op

\* the tier rule, on percentages in sixths of a percent
TierRule(macro_tier, context_pct, micro_pct, any_veto) ==
    IF macro_tier = "A" /\ context_pct >= 450 /\ micro_pct >= 480 /\ ~any_veto THEN "A"
    ELSE IF context_pct >= 360 /\ micro_pct >= 420 /\ ~any_veto THEN "B"
    ELSE "SKIP"

\* a leg total of MTFConfluenceEngine (points out of 50) as a percentage
EnginePct(total) == total * 12

\* C27: the tier is A exactly when the macro tier clearance is A, the context
\* percentage is at least 75, the micro percentage at least 80 and no veto is
\* raised; otherwise B exactly when the percentages are at least 60 and 70 and
\* no veto is raised; otherwise SKIP.  MTFConfluenceEngine.evaluate computes
\* no clearance: its tier must agree with the rule for one of the two.
C27_TierFromClearanceScoresAndVeto ==
    /\ CfServed("compute_full_confluence")
          => LET r == cfCall[1].result
             IN r.tier = TierRule(r.details.macro_tier_clearance,
                                  r.context.percentage, r.micro.percentage,
                                  r.details.veto_triggered)
    /\ CfServed("evaluate")
          => LET f == cfCall[1].result.final
             IN \E macro_tier \in {"A", "B"} :
                   f.tier = TierRule(macro_tier, EnginePct(f.context_score),
                                     EnginePct(f.micro_score), cfCall[1].any_veto)

\* the two leg totals and the final score of the result being served
CfScores ==
    IF CfServed("compute_full_confluence")
    THEN LET r == cfCall[1].result
         IN [context_total |-> r.context.total, micro_total |-> r.micro.total,
             final_score |-> r.final_score]
    ELSE LET f == IF CfServed("evaluate") THEN cfCall[1].result.final
                  ELSE cfCall[1].result
         IN [context_total |-> f.context_score, micro_total |-> f.micro_score,
             final_score |-> f.final_score]

\* C28: the final score of every confluence result is the smaller of its
\* context total and its micro total.
C28_FinalScoreIsBottleneck ==
    (cfCall # None /\ ~CfServed("check_spread_veto"))
       => LET s == CfScores
          IN /\ s.final_score <= s.context_total
             /\ s.final_score <= s.micro_total
             /\ s.final_score \in {s.context_total, s.micro_total}

\* evaluate served with the micro leg the weaker one
C28_Witness ==
    /\ CfServed("evaluate")
    /\ CfScores.micro_total < CfScores.context_total
    /\ CfScores.final_score = CfScores.micro_total

\* the multiplier of a tier, in hundredths
TierSize(tier) == IF tier = "A" THEN 100 ELSE IF tier = "B" THEN 50 ELSE 0

\* C29: the size multiplier is fixed by the tier wherever it is applied
\* (A = 1.0, B = 0.5, SKIP = 0): a SKIP tier yields neither a non-zero
\* multiplier nor a non-zero position size, in a confluence result or in risk
\* sizing.
C29_SizeMultiplierFixedByTier ==
    /\ (CfServed("evaluate") \/ CfServed("compute_final_confluence"))
          => LET f == IF CfServed("evaluate") THEN cfCall[1].result.final
                      ELSE cfCall[1].result
             IN f.size_multiplier = TierSize(f.tier)
    /\ RiskReturned
          => LET sizing == RiskResult.position_sizing
             IN /\ sizing.tier_multiplier = TierSize(sizing.tier)
                /\ sizing.tier = "SKIP" => sizing.position_size_usd = 0

\* ------------------------------------------------------------ stream workers
\* the tasks that write to a resource: alive and in their message loop
Writers(kind) ==
    {w \in WorkerIds : workers[w].kind = kind /\ workers[w].pos = "streaming"
                          /\ ~workers[w].closing}

\* C30: at every moment, across any sequence of start and stop requests, the
\* candle store and the microstructure snapshot slot each have at most one
\* running task writing to them.
C30_OneWriterPerResource ==
    /\ Cardinality(Writers("kline")) <= 1
    /\ Cardinality(Writers("micro")) <= 1

\* C31: the risk checks never raise: for every input, zero leverage, a zero
\* entry price and a zero stop distance included, check_entry_risk returns a
\* structured outcome, and a rejection carries a reason.
C31_RiskCheckNeverRaises ==
    riskCall # None
       => /\ riskCall[1].raised = None
          /\ ~RiskResult.entry_allowed => RiskResult.reasons # {}

\* ------------------------------------------------------------- TP ladder
LevelsServed == tpResult # None /\ tpResult[1].op = "calculate_tp_sl_levels"

LadderOrdered(l) == l.tp1_r < l.tp2_r /\ l.tp2_r < l.tp3_r

\* C32 (as stated): for every regime and every configured ladder, the levels
\* computed satisfy tp1_r < tp2_r < tp3_r and the reduction fractions sum
\* to 1.0.
C32_LadderOrderedAndComplete ==
    LevelsServed
       => LET l == tpResult[1].levels
          IN /\ LadderOrdered(l)
             /\ l.tp1_pct + l.tp2_pct + l.tp3_pct = 100

\* C32 (amended): the fractions are the configured ones and sum to 1.0; out
\* of a squeeze the levels are the configured ladder; in a squeeze tp2_r and
\* tp3_r are 2.5 and 4.0 whatever is configured, so the levels are increasing
\* exactly when the configured tp1_r is below 2.5; with the default ladder
\* they are increasing in every regime.
C32_LadderOrderedUnlessOverridden ==
    LevelsServed
       => LET l == tpResult[1].levels
              mgr == tpResult[1].mgr
          IN /\ l.tp1_pct + l.tp2_pct + l.tp3_pct = 100
             /\ l.tp1_r = mgr.tp1_r
             /\ l.regime # "squeeze"
                   => l.tp2_r = mgr.tp2_r /\ l.tp3_r = mgr.tp3_r /\ LadderOrdered(l)
             /\ l.regime = "squeeze"
                   => /\ l.tp2_r = 5 /\ l.tp3_r = 8
                      /\ LadderOrdered(l) <=> mgr.tp1_r < 5
             /\ mgr = DefaultTPSLManager => LadderOrdered(l)

\* levels computed in a squeeze on a manager whose tp2_r is not the default
C32_Witness ==
    /\ LevelsServed
    /\ tpResult[1].levels.regime = "squeeze"
    /\ tpResult[1].mgr.tp2_r # tp2_r
    /\ LadderOrdered(tpResult[1].levels)

FavourableFeedNeverExecutes == state \in {"scan", "candidate", "micro_confirm"} /\ returned = None

\* C34: when the veto checks cannot be evaluated (no snapshot, or a snapshot
\* that is not ok) the veto-hygiene component scores 0 and the spread check
\* does not report "no veto".
UnavailableSnapshots == {"none", "not_ok"}

C34_UnavailableEarnsNoCredit ==
    IF cfCall = None THEN TRUE
    ELSE LET c == cfCall[1]
         IN IF c.op = "evaluate"
            THEN c.snap \in UnavailableSnapshots => c.result.veto_hygiene = 0
            ELSE IF c.op = "check_spread_veto"
            THEN c.snap \in UnavailableSnapshots => c.result.veto
            ELSE TRUE

\* the quantity the TP checks have told the caller to take off so far: one
\* reduction per level whose flag is set
TpReduced(p) ==
    (IF p.tp_hits.tp1 THEN (p.original_quantity * p.levels.tp1_pct) \div 100 ELSE 0)
    + (IF p.tp_hits.tp2 THEN (p.original_quantity * p.levels.tp2_pct) \div 100 ELSE 0)
    + (IF p.tp_hits.tp3 THEN (p.original_quantity * p.levels.tp3_pct) \div 100 ELSE 0)

\* C35: over any sequence of TP hits and opposing signals the quantity
\* reduced never exceeds the original quantity, and the remaining quantity
\* is the original quantity minus the reductions made so far (stated for
\* positions whose only reductions are TP reductions).
C35_RemainingIsOriginalMinusReduced ==
    \A id \in DOMAIN positions :
       LET p == positions[id]
       IN /\ TpReduced(p) <= p.original_quantity
          /\ ~p.early_reduce_triggered
                => p.current_quantity = p.original_quantity - TpReduced(p)

\* C36: from the moment the microstructure worker is stopped until a worker
\* is started again the snapshot slot stays empty: no message still in flight
\* writes a snapshot after the reset.
C36_NoSnapshotAfterStop == mexc_worker = None => lastWrite.micro = 0

\* timestamps strictly increasing: at most one candle per bucket, in time order
StrictlyIncreasing(tss) == \A i \in 1..(Len(tss) - 1) : tss[i] < tss[i + 1]

\* C37: each candle store holds at most one candle per timeframe bucket, in
\* increasing time order, after any sequence of stream updates, resampling
\* passes and periodic polls.
C37_OneCandlePerBucketInOrder ==
    \A tf \in Timeframes : StrictlyIncreasing(kline_stores[tf])

\* the protocol is asleep on an order it has placed itself (second attempt
\* or later) and that order has been cancelled since: only a caller of
\* cancel_order can have done that
WaitingOnCancelled ==
    IF proto = None THEN FALSE
    ELSE /\ proto[1].pc = "sleep"
         /\ proto[1].current_attempt >= 2
         /\ orders[proto[1].order].status = "cancelled"

\* C38: an order cancelled from outside while the unfilled protocol is
\* waiting on it is not replaced: no step taken from such a state adds a
\* repost.
C38_CancelledOrderNotReplaced ==
    [][WaitingOnCancelled
         => \A id \in (DOMAIN orders') \ (DOMAIN orders) : orders'[id].origin # "repost"]_vars

\* the ids get_active_orders goes through
ActiveIds == {active_orders[i] : i \in DOMAIN active_orders}

\* C39: after any sequence of placements, fills, cancellations and protocol
\* runs the active-order list holds exactly the orders that are still open
\* (or partially filled): no filled or cancelled order is listed, and no
\* open order is missing.
C39_ActiveListIsOpenOrders ==
    /\ \A id \in ActiveIds : orders[id].status \in {"open", "partially_filled"}
    /\ \A id \in DOMAIN orders :
          orders[id].status \in {"open", "partially_filled"} => id \in ActiveIds

\* the calls that look at a position on behalf of the caller
PositionChecks == {"check_tp_hits", "update_trailing_stop", "check_early_reduce"}

\* a result that tells the caller to take quantity off
ReportsReduction(r) ==
    IF "error" \in DOMAIN r THEN FALSE
    ELSE IF r.op = "check_tp_hits" THEN r.reductions # <<>>
    ELSE IF r.op = "check_early_reduce" THEN r.reduction_pct > 0 \/ r.full_exit
    ELSE FALSE

\* C40: once a position has been closed, no later TP check, trailing-stop
\* update or early-reduce check changes its TP flags, its stop or its
\* early-reduce state, or reports a further reduction.
C40_ClosedPositionIsFrozen ==
    [][\A id \in DOMAIN positions :
          (/\ positions[id].closed
           /\ tpResult' # None
           /\ tpResult'[1].op \in PositionChecks)
             => /\ positions'[id].tp_hits = positions[id].tp_hits
                /\ positions'[id].trailing_stop.current_stop
                      = positions[id].trailing_stop.current_stop
                /\ positions'[id].trailing_stop.status = positions[id].trailing_stop.status
                /\ positions'[id].early_reduce_triggered
                      = positions[id].early_reduce_triggered
                /\ ~ReportsReduction(tpResult'[1])]_vars

====
